---- MODULE Spec2Model ----
(***************************************************************************)
(* A model of src/src/bucket.rs of b2-client: the request builders for    *)
(* buckets (CreateBucketBuilder, UpdateBucketBuilder), the CORS rule       *)
(* builder (CorsRuleBuilder), the validators they delegate to, and the     *)
(* JSON form of ServerSideEncryption (mod serialization).                  *)
(*                                                                         *)
(* Strings are TLA+ strings; a character is a string of length one.        *)
(* Option<T> is a sequence of length at most one: None is <<>> and         *)
(* Some(x) is <<x>>.  A builder method takes the builder by value, so a    *)
(* builder whose method returned Err is gone: its variable becomes None.   *)
(* The model follows one builder chain at a time, since builders share no  *)
(* state.  The validators are pure functions of their argument: the list   *)
(* a behaviour validates is drawn by Init and passed by the actions.       *)
(***************************************************************************)
EXTENDS Integers, Sequences, FiniteSets, TLC

VARIABLES
    cbb,    \* Option<CreateBucketBuilder>: the create builder of the chain
    ubb,    \* Option<UpdateBucketBuilder>: the update builder of the chain
    crb,    \* Option<CorsRuleBuilder>: the CORS rule builder of the chain
    req,    \* Option<CreateBucket | UpdateBucket | CorsRule>: what build() made
    last,   \* the last call made: its name, argument and Result
    input,  \* what the caller passes: drawn by Init, passed by the actions
    wire,   \* Option<serde_json::Value>: the JSON value written or to be read
    sse,    \* Option<ServerSideEncryption>: the value from_value decoded
    lrb,    \* Option<LifecycleRuleBuilder>: the rule builder of the chain
    lbb,    \* Option<ListBucketsBuilder>: the list builder of the chain
    decoded,\* Option: the value decoded or constructed last
    posts   \* the requests the HTTP client was given during the last call

vars == <<cbb, ubb, crb, req, last, input, wire, sse, lrb, lbb, decoded, posts>>

(***************************************************************************)
(* Bounds of the model.                                                    *)
(***************************************************************************)
MaxRules == 3       \* longest enumerated list of lifecycle rules
MaxOrigins == 2     \* longest enumerated list of origins

(***************************************************************************)
(* Option and Result.                                                      *)
(***************************************************************************)
None == <<>>
Some(x) == <<x>>
is_some(o) == o # <<>>
unwrap(o) == o[1]

Ok == [ok |-> TRUE, err |-> "", report |-> <<>>]
Err(kind) == [ok |-> FALSE, err |-> kind, report |-> <<>>]
ErrReport(kind, rep) == [ok |-> FALSE, err |-> kind, report |-> rep]
\* An error of ValidationError with its message.
ErrMessage(kind, message) == ErrReport(kind, <<message>>)

Call(op, arg, res) ==
    [op |-> op, arg |-> arg, ok |-> res.ok, err |-> res.err, report |-> res.report]

(***************************************************************************)
(* Strings.                                                                *)
(***************************************************************************)
\* The characters the model's strings use, in the order of their bytes.
AsciiOrder == "*-./0123456789:ADLPTVacdehilmnoprstuvwxy"

CharAt(s, i) == SubSeq(s, i, i)

Ord(c) == CHOOSE i \in 1..Len(AsciiOrder) : CharAt(AsciiOrder, i) = c

Min(a, b) == IF a <= b THEN a ELSE b

\* str::starts_with
starts_with(s, p) == Len(p) <= Len(s) /\ SubSeq(s, 1, Len(p)) = p

\* str::cmp: bytewise lexicographic order; -1 is Less, 0 Equal, 1 Greater.
str_cmp(a, b) ==
    LET n == Min(Len(a), Len(b))
        diff == {i \in 1..n : CharAt(a, i) # CharAt(b, i)}
    IN  IF diff = {}
        THEN (IF Len(a) < Len(b) THEN -1 ELSE IF Len(a) > Len(b) THEN 1 ELSE 0)
        ELSE LET k == CHOOSE i \in diff : \A j \in diff : i <= j
             IN  IF Ord(CharAt(a, k)) < Ord(CharAt(b, k)) THEN -1 ELSE 1

(***************************************************************************)
(* LifecycleRule and its order.                                            *)
(***************************************************************************)
LifecycleRule(prefix, delete_after, hide_after) ==
    [file_name_prefix |-> prefix, delete_after |-> delete_after,
     hide_after |-> hide_after]

\* A mutation of cmp: the comparison is written the wrong way round.
cmp_reversed(a, b) == str_cmp(b.file_name_prefix, a.file_name_prefix)

\* A mutation of cmp: the prefixes are compared by their length.
cmp_by_length(a, b) ==
    IF Len(a.file_name_prefix) < Len(b.file_name_prefix) THEN -1
    ELSE IF Len(a.file_name_prefix) > Len(b.file_name_prefix) THEN 1
    ELSE str_cmp(a.file_name_prefix, b.file_name_prefix)

\* impl Ord for LifecycleRule: rules are ordered by their prefix alone.
cmp(a, b) == str_cmp(a.file_name_prefix, b.file_name_prefix)

\* Vec::sort (stable) under cmp, as an insertion sort.
RECURSIVE sort(_)
sort(v) ==
    IF v = <<>> THEN <<>>
    ELSE LET n == Len(v)
             init == sort(SubSeq(v, 1, n - 1))
             x == v[n]
             \* x goes after every element that is not Greater than it
             k == Cardinality({i \in 1..Len(init) : cmp(init[i], x) <= 0})
         IN  SubSeq(init, 1, k) \o <<x>> \o SubSeq(init, k + 1, Len(init))

\* Vec::dedup: consecutive equal elements collapse to one.
RECURSIVE dedup(_)
dedup(v) ==
    IF Len(v) <= 1 THEN v
    ELSE LET d == dedup(SubSeq(v, 1, Len(v) - 1))
         IN  IF d[Len(d)] = v[Len(v)] THEN d ELSE Append(d, v[Len(v)])

(***************************************************************************)
(* validate::validated_lifecycle_rules (the validator is not part of      *)
(* bucket.rs; it follows section 4.1 of the specification).  The rules     *)
(* are sorted, every rule is compared with the rules after it, and each    *)
(* rule that is a proper prefix of a later one gets a group.               *)
(***************************************************************************)
conflicts_of(prefixes, i) ==
    LET key == prefixes[i]
        Sub(q) == starts_with(q, key) /\ q # key
    IN  dedup(SelectSeq(SubSeq(prefixes, i + 1, Len(prefixes)), Sub))

RECURSIVE conflict_report(_, _)
conflict_report(prefixes, i) ==
    IF i > Len(prefixes) THEN <<>>
    ELSE LET c == conflicts_of(prefixes, i)
             rest == conflict_report(prefixes, i + 1)
         IN  IF c = <<>> \/ (i > 1 /\ prefixes[i - 1] = prefixes[i])
             THEN rest
             ELSE <<[prefix |-> prefixes[i], conflicts |-> c]>> \o rest

validated_lifecycle_rules(rules) ==
    LET sorted == sort(rules)
        prefixes == [i \in 1..Len(sorted) |-> sorted[i].file_name_prefix]
        report == conflict_report(prefixes, 1)
    IN  IF report = <<>>
        THEN [res |-> Ok, rules |-> sorted]
        ELSE [res |-> ErrReport("ConflictingRules", report), rules |-> <<>>]

(***************************************************************************)
(* validate::validated_bucket_name (not part of bucket.rs; it follows the  *)
(* documentation of CreateBucketBuilder::name): ASCII letters, digits and  *)
(* '-', between 6 and 50 characters, not beginning with "b2-".             *)
(***************************************************************************)
NameMinLen == 6
NameMaxLen == 50

NameChars ==
    "-0123456789ABCDEFGHIJKLMNOPQRSTUVWXYZabcdefghijklmnopqrstuvwxyz"

NameCharSet == {CharAt(NameChars, i) : i \in 1..Len(NameChars)}

is_name_char(c) == c \in NameCharSet

validated_bucket_name(name) ==
    IF Len(name) < NameMinLen \/ Len(name) > NameMaxLen
    THEN Err("BucketValidationError")
    ELSE IF \E i \in 1..Len(name) : ~is_name_char(CharAt(name, i))
    THEN Err("BucketValidationError")
    ELSE IF starts_with(name, "b2-")
    THEN Err("BucketValidationError")
    ELSE Ok

(***************************************************************************)
(* serde_json::Value, as far as bucket_info needs it: an object is a       *)
(* function from its keys to values, anything else is not an object.       *)
(***************************************************************************)
JsonObject(map) == [kind |-> "object", map |-> map]
JsonString(str) == [kind |-> "string", map |-> <<str>>]

is_object(v) == v.kind = "object"

\* serde_json::Map::insert
map_insert(map, key, value) ==
    [k \in (DOMAIN map) \cup {key} |-> IF k = key THEN value ELSE map[k]]

(***************************************************************************)
(* CreateBucketBuilder                                                     *)
(***************************************************************************)
\* #[derive(Default)] of CreateBucketBuilder
CreateBucketBuilder_default ==
    [bucket_name |-> None, bucket_type |-> None, bucket_info |-> None,
     cache_control |-> None, cors_rules |-> None, file_lock_enabled |-> FALSE,
     lifecycle_rules |-> None, default_server_side_encryption |-> None]

\* #[derive(Default)] of UpdateBucketBuilder
UpdateBucketBuilder_default ==
    [bucket_id |-> None, bucket_type |-> None, bucket_info |-> None,
     cache_control |-> None, cors_rules |-> None, default_retention |-> None,
     default_server_side_encryption |-> None, lifecycle_rules |-> None,
     if_revision_is |-> None]

\* The bucket_info of the built request: build() of both builders puts the
\* Cache-Control of cache_control() into the bucket_info object.
build_bucket_info(b) ==
    IF is_some(b.cache_control)
    THEN LET info == IF is_some(b.bucket_info) THEN unwrap(b.bucket_info)
                     ELSE JsonObject(<<>>)
         IN  Some(IF is_object(info)
                  THEN JsonObject(map_insert(info.map, "Cache-Control",
                                             JsonString(unwrap(b.cache_control))))
                  ELSE info)
    ELSE b.bucket_info

\* CreateBucket::builder(): a new chain starts, whatever was there is dropped.
CreateBucket_builder ==
    /\ cbb' = Some(CreateBucketBuilder_default)
    /\ ubb' = None
    /\ crb' = None
    /\ req' = None
    /\ last' = Call("CreateBucket::builder", <<>>, Ok)
    /\ lrb' = None
    /\ lbb' = None
    /\ UNCHANGED <<input, wire, sse, decoded, posts>>

\* CreateBucketBuilder::name
CreateBucketBuilder_name(name) ==
    /\ is_some(cbb)
    /\ LET res == validated_bucket_name(name)
       IN  /\ cbb' = IF res.ok
                     THEN Some([unwrap(cbb) EXCEPT !.bucket_name = Some(name)])
                     ELSE None
           /\ last' = Call("CreateBucketBuilder::name", name, res)
    /\ UNCHANGED <<ubb, crb, req, input, wire, sse, lrb, lbb, decoded, posts>>

\* CreateBucketBuilder::bucket_type
CreateBucketBuilder_bucket_type(typ) ==
    /\ is_some(cbb)
    /\ IF typ = "Snapshot"
       THEN /\ cbb' = None
            /\ last' = Call("CreateBucketBuilder::bucket_type", typ,
                            Err("OutOfBounds"))
       ELSE /\ cbb' = Some([unwrap(cbb) EXCEPT !.bucket_type = Some(typ)])
            /\ last' = Call("CreateBucketBuilder::bucket_type", typ, Ok)
    /\ UNCHANGED <<ubb, crb, req, input, wire, sse, lrb, lbb, decoded, posts>>

\* A mutation of CreateBucketBuilder::lifecycle_rules: the rules are stored
\* before they are validated, and the error is dropped.
CreateBucketBuilder_lifecycle_rules_unchecked(rules) ==
    /\ is_some(cbb)
    /\ cbb' = Some([unwrap(cbb) EXCEPT !.lifecycle_rules = Some(sort(rules))])
    /\ last' = Call("CreateBucketBuilder::lifecycle_rules", rules, Ok)
    /\ UNCHANGED <<ubb, crb, req, input, wire, sse, lrb, lbb, decoded, posts>>

\* CreateBucketBuilder::lifecycle_rules
CreateBucketBuilder_lifecycle_rules(rules) ==
    /\ is_some(cbb)
    /\ LET v == validated_lifecycle_rules(rules)
       IN  /\ cbb' = IF v.res.ok
                     THEN Some([unwrap(cbb) EXCEPT
                                   !.lifecycle_rules = Some(v.rules)])
                     ELSE None
           /\ last' = Call("CreateBucketBuilder::lifecycle_rules", rules, v.res)
    /\ UNCHANGED <<ubb, crb, req, input, wire, sse, lrb, lbb, decoded, posts>>

\* CreateBucketBuilder::build
CreateBucketBuilder_build ==
    /\ is_some(cbb)
    /\ LET b == unwrap(cbb)
       IN  IF ~is_some(b.bucket_name)
           THEN /\ req' = None
                /\ last' = Call("CreateBucketBuilder::build", "bucket_name",
                                ErrMessage("MissingData",
                                           "The bucket must have a name"))
           ELSE IF ~is_some(b.bucket_type)
           THEN /\ req' = None
                /\ last' = Call("CreateBucketBuilder::build", "bucket_type",
                                ErrMessage("MissingData",
                                           "The bucket must have a type set"))
           ELSE /\ req' = Some(
                      [request |-> "CreateBucket",
                       account_id |-> None,
                       bucket_name |-> unwrap(b.bucket_name),
                       bucket_type |-> unwrap(b.bucket_type),
                       bucket_info |-> build_bucket_info(b),
                       cors_rules |-> b.cors_rules,
                       file_lock_enabled |-> b.file_lock_enabled,
                       lifecycle_rules |-> b.lifecycle_rules,
                       default_server_side_encryption |->
                           b.default_server_side_encryption])
                /\ last' = Call("CreateBucketBuilder::build", "", Ok)
    /\ cbb' = None
    /\ UNCHANGED <<ubb, crb, input, wire, sse, lrb, lbb, decoded, posts>>

(***************************************************************************)
(* UpdateBucketBuilder                                                     *)
(***************************************************************************)
\* UpdateBucket::builder()
UpdateBucket_builder ==
    /\ ubb' = Some(UpdateBucketBuilder_default)
    /\ cbb' = None
    /\ crb' = None
    /\ req' = None
    /\ last' = Call("UpdateBucket::builder", <<>>, Ok)
    /\ lrb' = None
    /\ lbb' = None
    /\ UNCHANGED <<input, wire, sse, decoded, posts>>

\* UpdateBucketBuilder::bucket_id
UpdateBucketBuilder_bucket_id(id) ==
    /\ is_some(ubb)
    /\ ubb' = Some([unwrap(ubb) EXCEPT !.bucket_id = Some(id)])
    /\ last' = Call("UpdateBucketBuilder::bucket_id", id, Ok)
    /\ UNCHANGED <<cbb, crb, req, input, wire, sse, lrb, lbb, decoded, posts>>

\* UpdateBucketBuilder::lifecycle_rules
UpdateBucketBuilder_lifecycle_rules(rules) ==
    /\ is_some(ubb)
    /\ LET v == validated_lifecycle_rules(rules)
       IN  /\ ubb' = IF v.res.ok
                     THEN Some([unwrap(ubb) EXCEPT
                                   !.lifecycle_rules = Some(v.rules)])
                     ELSE None
           /\ last' = Call("UpdateBucketBuilder::lifecycle_rules", rules, v.res)
    /\ UNCHANGED <<cbb, crb, req, input, wire, sse, lrb, lbb, decoded, posts>>

\* UpdateBucketBuilder::build
UpdateBucketBuilder_build ==
    /\ is_some(ubb)
    /\ LET b == unwrap(ubb)
       IN  IF ~is_some(b.bucket_id)
           THEN /\ req' = None
                /\ last' = Call("UpdateBucketBuilder::build", "bucket_id",
                                ErrMessage("MissingData",
                                    "The bucket ID to update must be specified"))
           ELSE /\ req' = Some(
                      [request |-> "UpdateBucket",
                       account_id |-> None,
                       bucket_id |-> unwrap(b.bucket_id),
                       bucket_type |-> b.bucket_type,
                       bucket_info |-> build_bucket_info(b),
                       cors_rules |-> b.cors_rules,
                       default_retention |-> b.default_retention,
                       default_server_side_encryption |->
                           b.default_server_side_encryption,
                       lifecycle_rules |-> b.lifecycle_rules,
                       if_revision_is |-> b.if_revision_is])
                /\ last' = Call("UpdateBucketBuilder::build", "", Ok)
    /\ ubb' = None
    /\ UNCHANGED <<cbb, crb, input, wire, sse, lrb, lbb, decoded, posts>>

(***************************************************************************)
(* validate::validated_origins (the validator is not part of bucket.rs;    *)
(* it follows section 4.2 of the specification, the documentation of       *)
(* CorsRuleBuilder::allowed_origins and the lists of the test              *)
(* cors_rule_validates_origins).                                           *)
(***************************************************************************)
AllowedSchemes == {"http", "https"}

Digits == "0123456789"

DigitSet == {CharAt(Digits, i) : i \in 1..Len(Digits)}

is_digit(c) == c \in DigitSet

\* str::find: the index of the first occurrence of pat in s, 0 if none.
find(s, pat) ==
    LET at == {i \in 1..(Len(s) - Len(pat) + 1) :
                   SubSeq(s, i, i + Len(pat) - 1) = pat}
    IN  IF at = {} THEN 0 ELSE CHOOSE i \in at : \A j \in at : i <= j

count_stars(s) == Cardinality({i \in 1..Len(s) : CharAt(s, i) = "*"})

Invalid == [class |-> "Invalid", scheme |-> "", host |-> "", port |-> None]

\* classify: the class of one origin string.
classify(origin) ==
    LET sep == find(origin, "://")
    IN  IF count_stars(origin) > 1 THEN Invalid
        ELSE IF origin = "*"
        THEN [class |-> "Universal", scheme |-> "", host |-> "", port |-> None]
        ELSE IF sep = 0 /\ count_stars(origin) = 0
        THEN IF origin \in AllowedSchemes
             THEN [class |-> "SchemeOnly", scheme |-> origin, host |-> "",
                   port |-> None]
             ELSE Invalid
        ELSE IF sep = 0 THEN Invalid
        ELSE LET scheme == SubSeq(origin, 1, sep - 1)
                 rest == SubSeq(origin, sep + 3, Len(origin))
                 colon == find(rest, ":")
                 host == IF colon = 0 THEN rest ELSE SubSeq(rest, 1, colon - 1)
                 port == IF colon = 0 THEN None
                         ELSE Some(SubSeq(rest, colon + 1, Len(rest)))
             IN  IF scheme \notin AllowedSchemes THEN Invalid
                 ELSE IF host = "" THEN Invalid
                 ELSE IF is_some(port)
                         /\ (unwrap(port) = ""
                             \/ \E i \in 1..Len(unwrap(port)) :
                                    ~is_digit(CharAt(unwrap(port), i)))
                 THEN Invalid
                 ELSE [class |-> "Full", scheme |-> scheme, host |-> host,
                       port |-> port]

\* validated_origins: the per-entry errors first, then the rules of the list.
validated_origins(origins) ==
    LET n == Len(origins)
        c == [i \in 1..n |-> classify(origins[i])]
    IN  IF n = 0 THEN Err("MissingData")
        ELSE IF \E i \in 1..n : c[i].class = "Invalid" THEN Err("BadFormat")
        \* `*` must be the only entry
        ELSE IF n > 1 /\ \E i \in 1..n : c[i].class = "Universal"
        THEN Err("Incompatible")
        \* no more than one https entry
        ELSE IF \E i, j \in 1..n :
                    i # j /\ c[i].scheme = "https" /\ c[j].scheme = "https"
        THEN Err("Incompatible")
        \* no more than one scheme-only entry of a scheme
        ELSE IF \E i, j \in 1..n :
                    /\ i # j
                    /\ c[i].class = "SchemeOnly" /\ c[j].class = "SchemeOnly"
                    /\ c[i].scheme = c[j].scheme
        THEN Err("Incompatible")
        \* a scheme-only entry subsumes the bare wildcard host of its scheme
        ELSE IF \E i, j \in 1..n :
                    /\ c[i].class = "SchemeOnly" /\ c[j].class = "Full"
                    /\ c[i].scheme = c[j].scheme
                    /\ c[j].host = "*" /\ c[j].port = None
        THEN Err("Incompatible")
        ELSE Ok

(***************************************************************************)
(* CorsRuleBuilder                                                         *)
(***************************************************************************)
\* #[derive(Default)] of CorsRuleBuilder
CorsRuleBuilder_default ==
    [name |-> None, allowed_origins |-> <<>>, allowed_operations |-> <<>>,
     allowed_headers |-> None, expose_headers |-> None, max_age |-> None]

\* CorsRule::builder(): a new chain starts, whatever was there is dropped.
CorsRule_builder ==
    /\ crb' = Some(CorsRuleBuilder_default)
    /\ cbb' = None
    /\ ubb' = None
    /\ req' = None
    /\ last' = Call("CorsRule::builder", <<>>, Ok)
    /\ lrb' = None
    /\ lbb' = None
    /\ UNCHANGED <<input, wire, sse, decoded, posts>>

\* A mutation of CorsRuleBuilder::allowed_origins: the list is stored
\* without being validated.
CorsRuleBuilder_allowed_origins_unchecked(origins) ==
    /\ is_some(crb)
    /\ crb' = Some([unwrap(crb) EXCEPT !.allowed_origins = origins])
    /\ last' = Call("CorsRuleBuilder::allowed_origins", origins, Ok)
    /\ UNCHANGED <<cbb, ubb, req, input, wire, sse, lrb, lbb, decoded, posts>>

\* A mutation of CorsRuleBuilder::allowed_origins: the validated list is
\* not stored in the builder.
CorsRuleBuilder_allowed_origins_not_stored(origins) ==
    /\ is_some(crb)
    /\ LET res == validated_origins(origins)
       IN  /\ crb' = IF res.ok THEN crb ELSE None
           /\ last' = Call("CorsRuleBuilder::allowed_origins", origins, res)
    /\ UNCHANGED <<cbb, ubb, req, input, wire, sse, lrb, lbb, decoded, posts>>

\* CorsRuleBuilder::allowed_origins
CorsRuleBuilder_allowed_origins(origins) ==
    /\ is_some(crb)
    /\ LET res == validated_origins(origins)
       IN  /\ crb' = IF res.ok
                     THEN Some([unwrap(crb) EXCEPT !.allowed_origins = origins])
                     ELSE None
           /\ last' = Call("CorsRuleBuilder::allowed_origins", origins, res)
    /\ UNCHANGED <<cbb, ubb, req, input, wire, sse, lrb, lbb, decoded, posts>>

\* A mutation of CorsRuleBuilder::add_allowed_origin: the list is validated
\* before the origin is pushed.
CorsRuleBuilder_add_allowed_origin_validate_first(origin) ==
    /\ is_some(crb)
    /\ LET self == unwrap(crb).allowed_origins
           res == validated_origins(self)
       IN  /\ crb' = IF res.ok
                     THEN Some([unwrap(crb) EXCEPT
                                   !.allowed_origins = Append(self, origin)])
                     ELSE None
           /\ last' = Call("CorsRuleBuilder::add_allowed_origin",
                           [self |-> self, origin |-> origin], res)
    /\ UNCHANGED <<cbb, ubb, req, input, wire, sse, lrb, lbb, decoded, posts>>

\* CorsRuleBuilder::add_allowed_origin: the origin is pushed, then the whole
\* list is validated.
CorsRuleBuilder_add_allowed_origin(origin) ==
    /\ is_some(crb)
    /\ LET self == unwrap(crb).allowed_origins
           pushed == Append(self, origin)
           res == validated_origins(pushed)
       IN  /\ crb' = IF res.ok
                     THEN Some([unwrap(crb) EXCEPT !.allowed_origins = pushed])
                     ELSE None
           /\ last' = Call("CorsRuleBuilder::add_allowed_origin",
                           [self |-> self, origin |-> origin], res)
    /\ UNCHANGED <<cbb, ubb, req, input, wire, sse, lrb, lbb, decoded, posts>>

(***************************************************************************)
(* CorsRuleBuilder: the name, the operations, the headers and the age.     *)
(***************************************************************************)
\* validated_cors_rule_name: ASCII letters, digits and `-`, 6 to 50
\* characters, not beginning with "b2-".
validated_cors_rule_name(name) ==
    IF Len(name) < NameMinLen \/ Len(name) > NameMaxLen
    THEN Err("CorsRuleValidationError")
    ELSE IF \E i \in 1..Len(name) : ~is_name_char(CharAt(name, i))
    THEN Err("CorsRuleValidationError")
    ELSE IF starts_with(name, "b2-")
    THEN Err("CorsRuleValidationError")
    ELSE Ok

\* validated_http_header: one header, on its own: a header name, a header
\* name ending with `*`, or `*`.
validated_http_header(header) ==
    LET n == Len(header)
        body == IF n > 0 /\ CharAt(header, n) = "*"
                THEN SubSeq(header, 1, n - 1) ELSE header
    IN  IF n = 0 THEN Err("BadHeaderName")
        ELSE IF \E i \in 1..Len(body) : ~is_name_char(CharAt(body, i))
        THEN Err("BadHeaderName")
        ELSE Ok

\* The name serde gives each CorsOperation.
CorsOperation_rename ==
    [DownloadFileByName |-> "b2_download_file_by_name",
     DownloadFileById |-> "b2_download_file_by_id",
     UploadFile |-> "b2_upload_file",
     UploadPart |-> "b2_upload_part",
     S3Delete |-> "s3_delete",
     S3Get |-> "s3_get",
     S3Head |-> "s3_head",
     S3Post |-> "s3_post",
     S3Put |-> "s3_put"]

CorsOperation == DOMAIN CorsOperation_rename

\* serde_json::to_string of a CorsOperation: a JSON string, in its quotes.
to_string(op) == "\"" \o CorsOperation_rename[op] \o "\""

\* CorsRuleBuilder::name
CorsRuleBuilder_name(name) ==
    /\ is_some(crb)
    /\ LET res == validated_cors_rule_name(name)
       IN  /\ crb' = IF res.ok
                     THEN Some([unwrap(crb) EXCEPT !.name = Some(name)])
                     ELSE None
           /\ last' = Call("CorsRuleBuilder::name", name, res)
    /\ UNCHANGED <<cbb, ubb, req, input, wire, sse, lrb, lbb, decoded, posts>>

\* A mutation of CorsRuleBuilder::allowed_operations: the empty list is
\* stored too.
CorsRuleBuilder_allowed_operations_unchecked(ops) ==
    /\ is_some(crb)
    /\ crb' = Some([unwrap(crb) EXCEPT !.allowed_operations = ops])
    /\ last' = Call("CorsRuleBuilder::allowed_operations", ops, Ok)
    /\ UNCHANGED <<cbb, ubb, req, input, wire, sse, lrb, lbb, decoded, posts>>

\* CorsRuleBuilder::allowed_operations
CorsRuleBuilder_allowed_operations(ops) ==
    /\ is_some(crb)
    /\ IF ops = <<>>
       THEN /\ crb' = None
            /\ last' = Call("CorsRuleBuilder::allowed_operations", ops,
                            Err("MissingData"))
       ELSE /\ crb' = Some([unwrap(crb) EXCEPT !.allowed_operations = ops])
            /\ last' = Call("CorsRuleBuilder::allowed_operations", ops, Ok)
    /\ UNCHANGED <<cbb, ubb, req, input, wire, sse, lrb, lbb, decoded, posts>>

\* CorsRuleBuilder::add_allowed_operation
CorsRuleBuilder_add_allowed_operation(op) ==
    /\ is_some(crb)
    /\ crb' = Some([unwrap(crb) EXCEPT
                       !.allowed_operations = Append(@, op)])
    /\ last' = Call("CorsRuleBuilder::add_allowed_operation", op, Ok)
    /\ UNCHANGED <<cbb, ubb, req, input, wire, sse, lrb, lbb, decoded, posts>>

\* The first Err of validated_http_header over the headers, in their order.
validated_headers(headers) ==
    LET bad == {i \in 1..Len(headers) : ~validated_http_header(headers[i]).ok}
    IN  IF bad = {} THEN Ok ELSE Err("BadHeaderName")

\* CorsRuleBuilder::allowed_headers: an empty list leaves the builder as it
\* is; each header is validated on its own.
CorsRuleBuilder_allowed_headers(headers) ==
    /\ is_some(crb)
    /\ LET res == validated_headers(headers)
       IN  /\ crb' = IF ~res.ok THEN None
                     ELSE IF headers = <<>> THEN crb
                     ELSE Some([unwrap(crb) EXCEPT
                                   !.allowed_headers = Some(headers)])
           /\ last' = Call("CorsRuleBuilder::allowed_headers", headers, res)
    /\ UNCHANGED <<cbb, ubb, req, input, wire, sse, lrb, lbb, decoded, posts>>

\* CorsRuleBuilder::add_allowed_header: get_or_insert_with(Vec::new), push.
CorsRuleBuilder_add_allowed_header(header) ==
    /\ is_some(crb)
    /\ LET res == validated_http_header(header)
           self == unwrap(crb).allowed_headers
           headers == IF is_some(self) THEN unwrap(self) ELSE <<>>
       IN  /\ crb' = IF res.ok
                     THEN Some([unwrap(crb) EXCEPT
                                   !.allowed_headers =
                                       Some(Append(headers, header))])
                     ELSE None
           /\ last' = Call("CorsRuleBuilder::add_allowed_header", header, res)
    /\ UNCHANGED <<cbb, ubb, req, input, wire, sse, lrb, lbb, decoded, posts>>

\* CorsRuleBuilder::exposed_headers
CorsRuleBuilder_exposed_headers(headers) ==
    /\ is_some(crb)
    /\ LET res == validated_headers(headers)
       IN  /\ crb' = IF ~res.ok THEN None
                     ELSE IF headers = <<>> THEN crb
                     ELSE Some([unwrap(crb) EXCEPT
                                   !.expose_headers = Some(headers)])
           /\ last' = Call("CorsRuleBuilder::exposed_headers", headers, res)
    /\ UNCHANGED <<cbb, ubb, req, input, wire, sse, lrb, lbb, decoded, posts>>

\* CorsRuleBuilder::add_exposed_header
CorsRuleBuilder_add_exposed_header(header) ==
    /\ is_some(crb)
    /\ LET res == validated_http_header(header)
           self == unwrap(crb).expose_headers
           headers == IF is_some(self) THEN unwrap(self) ELSE <<>>
       IN  /\ crb' = IF res.ok
                     THEN Some([unwrap(crb) EXCEPT
                                   !.expose_headers =
                                       Some(Append(headers, header))])
                     ELSE None
           /\ last' = Call("CorsRuleBuilder::add_exposed_header", header, res)
    /\ UNCHANGED <<cbb, ubb, req, input, wire, sse, lrb, lbb, decoded, posts>>

(***************************************************************************)
(* chrono::Duration and the cast to u16.  A duration is a number of whole  *)
(* days and the milliseconds, from 0 up to a day, that follow them: the    *)
(* milliseconds of 65536 days do not fit the integers of the model.        *)
(***************************************************************************)
MillisPerDay == 86400000

Duration_milliseconds(n) ==
    [days |-> n \div MillisPerDay, millis |-> n % MillisPerDay]

Duration_zero == Duration_milliseconds(0)
Duration_seconds(n) == Duration_milliseconds(n * 1000)
Duration_days(n) == [days |-> n, millis |-> 0]

\* PartialOrd of chrono::Duration: a < b
Duration_lt(a, b) ==
    a.days < b.days \/ (a.days = b.days /\ a.millis < b.millis)

\* Duration::num_seconds: the whole seconds, rounded towards zero.
num_seconds(age) ==
    IF age.days >= 0
    THEN age.days * 86400 + age.millis \div 1000
    ELSE -(((-age.days) * MillisPerDay - age.millis) \div 1000)

\* `as u16`: the low 16 bits.
as_u16(n) == n % 65536

\* CorsRuleBuilder::max_age
CorsRuleBuilder_max_age(age) ==
    /\ is_some(crb)
    /\ IF Duration_lt(age, Duration_zero) \/ Duration_lt(Duration_days(1), age)
       THEN /\ crb' = None
            /\ last' = Call("CorsRuleBuilder::max_age", age, Err("OutOfBounds"))
       ELSE /\ crb' = Some([unwrap(crb) EXCEPT
                               !.max_age = Some(as_u16(num_seconds(age)))])
            /\ last' = Call("CorsRuleBuilder::max_age", age, Ok)
    /\ UNCHANGED <<cbb, ubb, req, input, wire, sse, lrb, lbb, decoded, posts>>

\* The sum of len() over a list of strings.
RECURSIVE sum_len(_)
sum_len(v) == IF v = <<>> THEN 0 ELSE Len(v[1]) + sum_len(Tail(v))

\* The sum of len() over Option::iter() of a list: the Option yields the
\* list itself, once, and len() of a list is the number of its elements.
option_iter_sum_len(o) == IF is_some(o) THEN Len(unwrap(o)) ELSE 0

\* The bytes build() counts.
bytes_of(self) ==
    Len(unwrap(self.name))
        + sum_len(self.allowed_origins)
        + sum_len([i \in 1..Len(self.allowed_operations) |->
                       to_string(self.allowed_operations[i])])
        + option_iter_sum_len(self.allowed_headers)
        + option_iter_sum_len(self.expose_headers)

MaxBytes == 1000

\* A mutation of build_result: the lists are not checked for emptiness.
build_result_no_empty_check(self) ==
    IF self.name = None
    THEN ErrMessage("MissingData", "The CORS rule must have a name")
    ELSE IF self.max_age = None
    THEN ErrMessage("MissingData",
                    "A maximum age for client caching must be specified")
    ELSE IF bytes_of(self) >= MaxBytes THEN Err("OutOfBounds")
    ELSE Ok

\* The Result of CorsRuleBuilder::build on the builder self.
build_result(self) ==
    IF self.name = None
    THEN ErrMessage("MissingData", "The CORS rule must have a name")
    ELSE IF self.max_age = None
    THEN ErrMessage("MissingData",
                    "A maximum age for client caching must be specified")
    ELSE IF self.allowed_origins = <<>>
    THEN ErrMessage("MissingData",
                    "At least one origin must be allowed by the CORS rule")
    ELSE IF self.allowed_operations = <<>>
    THEN ErrMessage("MissingData",
                    "At least one operation must be specified")
    ELSE IF bytes_of(self) >= MaxBytes THEN Err("OutOfBounds")
    ELSE Ok

\* The CorsRule build() makes of the builder self.
CorsRule_of(self) ==
    [request |-> "CorsRule",
     cors_rule_name |-> unwrap(self.name),
     allowed_origins |-> self.allowed_origins,
     allowed_operations |-> self.allowed_operations,
     allowed_headers |-> self.allowed_headers,
     expose_headers |-> self.expose_headers,
     max_age_seconds |-> unwrap(self.max_age)]

\* CorsRuleBuilder::build: the builder is consumed.
CorsRuleBuilder_build ==
    /\ is_some(crb)
    /\ LET self == unwrap(crb)
           res == build_result(self)
       IN  /\ req' = IF res.ok THEN Some(CorsRule_of(self)) ELSE None
           /\ last' = Call("CorsRuleBuilder::build", self, res)
    /\ crb' = None
    /\ UNCHANGED <<cbb, ubb, input, wire, sse, lrb, lbb, decoded, posts>>

(***************************************************************************)
(* ServerSideEncryption and its JSON form.  A JSON value is null, a string *)
(* or an object; an object is a function from its keys to JSON values.     *)
(***************************************************************************)
JsonNull == [kind |-> "null", map |-> <<>>]

is_null(v) == v.kind = "null"
is_string(v) == v.kind = "string"
as_str(v) == v.map[1]

\* The names serde gives the variants of Mode and of EncryptionAlgorithm.
Mode_rename == [B2Managed |-> "SSE-B2", SelfManaged |-> "SSE-C"]
EncryptionAlgorithm_rename == [Aes256 |-> "AES256"]

\* The variant serde reads from a name; the name is one of rename.
variant_of(rename, name) == CHOOSE v \in DOMAIN rename : rename[v] = name

is_variant(rename, name) == \E v \in DOMAIN rename : rename[v] = name

SelfManagedEncryption(algorithm, key, digest) ==
    [algorithm |-> algorithm, key |-> key, digest |-> digest]

\* enum ServerSideEncryption: the payload of a variant is a record of its
\* fields.
NoEncryption == [variant |-> "NoEncryption", value |-> <<>>]
B2Managed(algorithm) ==
    [variant |-> "B2Managed", value |-> <<[algorithm |-> algorithm]>>]
SelfManaged(enc) == [variant |-> "SelfManaged", value |-> <<enc>>]

\* #[derive(Default)] of InnerEncryptionConfig
InnerEncryptionConfig_default ==
    [mode |-> None, algorithm |-> None, customer_key |-> None,
     customer_key_md5 |-> None]

\* A mutation of InnerEncryptionConfig_from: the digest of a self-managed
\* configuration is left out.
InnerEncryptionConfig_from_without_digest(other) ==
    IF other.variant = "B2Managed"
    THEN [InnerEncryptionConfig_default EXCEPT
              !.mode = Some("B2Managed"),
              !.algorithm = Some(other.value[1].algorithm)]
    ELSE IF other.variant = "SelfManaged"
    THEN [InnerEncryptionConfig_default EXCEPT
              !.mode = Some("SelfManaged"),
              !.algorithm = Some(other.value[1].algorithm),
              !.customer_key = Some(other.value[1].key)]
    ELSE InnerEncryptionConfig_default

\* impl From<ServerSideEncryption> for InnerEncryptionConfig
InnerEncryptionConfig_from(other) ==
    IF other.variant = "B2Managed"
    THEN [InnerEncryptionConfig_default EXCEPT
              !.mode = Some("B2Managed"),
              !.algorithm = Some(other.value[1].algorithm)]
    ELSE IF other.variant = "SelfManaged"
    THEN [mode |-> Some("SelfManaged"),
          algorithm |-> Some(other.value[1].algorithm),
          customer_key |-> Some(other.value[1].key),
          customer_key_md5 |-> Some(other.value[1].digest)]
    ELSE InnerEncryptionConfig_default

\* The keys #[serde(rename_all = "camelCase")] gives the fields.
InnerEncryptionConfig_keys ==
    [mode |-> "mode", algorithm |-> "algorithm",
     customer_key |-> "customerKey", customer_key_md5 |-> "customerKeyMd5"]

\* The JSON value of each field of an InnerEncryptionConfig.
field_value(inner, key) ==
    IF key = "mode"
    THEN (IF is_some(inner.mode)
          THEN JsonString(Mode_rename[unwrap(inner.mode)]) ELSE JsonNull)
    ELSE IF key = "algorithm"
    THEN (IF is_some(inner.algorithm)
          THEN JsonString(EncryptionAlgorithm_rename[unwrap(inner.algorithm)])
          ELSE JsonNull)
    ELSE IF key = "customerKey"
    THEN (IF is_some(inner.customer_key)
          THEN JsonString(unwrap(inner.customer_key)) ELSE JsonNull)
    ELSE (IF is_some(inner.customer_key_md5)
          THEN JsonString(unwrap(inner.customer_key_md5)) ELSE JsonNull)

\* A mutation of InnerEncryptionConfig_serialize: no field is skipped, a
\* None is written as null.
InnerEncryptionConfig_serialize_all(inner) ==
    JsonObject([k \in {"mode", "algorithm", "customerKey", "customerKeyMd5"}
                    |-> field_value(inner, k)])

\* #[derive(Serialize)] of InnerEncryptionConfig: mode is always written,
\* the other fields are skipped when they are None.
InnerEncryptionConfig_serialize(inner) ==
    LET keys == {"mode"}
                    \cup {InnerEncryptionConfig_keys[f] :
                             f \in {g \in {"algorithm", "customer_key",
                                           "customer_key_md5"} :
                                        is_some(inner[g])}}
    IN  JsonObject([k \in keys |-> field_value(inner, k)])

\* serde_json::to_value of a ServerSideEncryption (#[serde(into = ..)])
to_value(x) == InnerEncryptionConfig_serialize(InnerEncryptionConfig_from(x))

(***************************************************************************)
(* Reading a ServerSideEncryption from JSON.  A function that can fail     *)
(* returns its Result and, in an Option, the value of an Ok.               *)
(***************************************************************************)
OkValue(v) == [res |-> Ok, value |-> Some(v)]
ErrValue(kind) == [res |-> Err(kind), value |-> None]

\* The value of a key of an object; a missing Option field reads as null.
get(object, key) ==
    IF key \in DOMAIN object.map THEN object.map[key] ELSE JsonNull

\* Option<enum> from JSON: null is None, the name of a variant is
\* Some(variant), anything else is an error.
deserialize_option_enum(v, rename) ==
    IF is_null(v) THEN OkValue(None)
    ELSE IF ~is_string(v) THEN ErrValue("invalid type")
    ELSE IF ~is_variant(rename, as_str(v)) THEN ErrValue("unknown variant")
    ELSE OkValue(Some(variant_of(rename, as_str(v))))

\* Option<String> from JSON
deserialize_option_string(v) ==
    IF is_null(v) THEN OkValue(None)
    ELSE IF ~is_string(v) THEN ErrValue("invalid type")
    ELSE OkValue(Some(as_str(v)))

\* #[derive(Deserialize)] of InnerEncryptionConfig: keys it does not know
\* are ignored.
InnerEncryptionConfig_deserialize(v) ==
    IF ~is_object(v) THEN ErrValue("invalid type")
    ELSE LET mode == deserialize_option_enum(get(v, "mode"), Mode_rename)
             algorithm == deserialize_option_enum(get(v, "algorithm"),
                                                  EncryptionAlgorithm_rename)
             customer_key == deserialize_option_string(get(v, "customerKey"))
             customer_key_md5 ==
                 deserialize_option_string(get(v, "customerKeyMd5"))
         IN  IF ~mode.res.ok THEN ErrValue(mode.res.err)
             ELSE IF ~algorithm.res.ok THEN ErrValue(algorithm.res.err)
             ELSE IF ~customer_key.res.ok THEN ErrValue(customer_key.res.err)
             ELSE IF ~customer_key_md5.res.ok
             THEN ErrValue(customer_key_md5.res.err)
             ELSE OkValue([mode |-> unwrap(mode.value),
                           algorithm |-> unwrap(algorithm.value),
                           customer_key |-> unwrap(customer_key.value),
                           customer_key_md5 |-> unwrap(customer_key_md5.value)])

\* A mutation of ServerSideEncryption_try_from: a missing companion gives
\* NoEncryption.
ServerSideEncryption_try_from_or_default(other) ==
    IF is_some(other.mode)
    THEN IF unwrap(other.mode) = "B2Managed"
         THEN IF other.algorithm = None THEN OkValue(NoEncryption)
              ELSE OkValue(B2Managed(unwrap(other.algorithm)))
         ELSE IF other.algorithm = None \/ other.customer_key = None
                     \/ other.customer_key_md5 = None
              THEN OkValue(NoEncryption)
              ELSE OkValue(SelfManaged(SelfManagedEncryption(
                               unwrap(other.algorithm),
                               unwrap(other.customer_key),
                               unwrap(other.customer_key_md5))))
    ELSE OkValue(NoEncryption)

\* impl TryFrom<InnerEncryptionConfig> for ServerSideEncryption
ServerSideEncryption_try_from(other) ==
    IF is_some(other.mode)
    THEN IF unwrap(other.mode) = "B2Managed"
         THEN IF other.algorithm = None
              THEN ErrValue("Missing encryption algorithm")
              ELSE OkValue(B2Managed(unwrap(other.algorithm)))
         ELSE IF other.algorithm = None
              THEN ErrValue("Missing encryption algorithm")
              ELSE IF other.customer_key = None
              THEN ErrValue("Missing encryption key")
              ELSE IF other.customer_key_md5 = None
              THEN ErrValue("Missing encryption key digest")
              ELSE OkValue(SelfManaged(SelfManagedEncryption(
                               unwrap(other.algorithm),
                               unwrap(other.customer_key),
                               unwrap(other.customer_key_md5))))
    ELSE OkValue(NoEncryption)

\* serde_json::from_value of a ServerSideEncryption (#[serde(try_from = ..)])
from_value(v) ==
    LET inner == InnerEncryptionConfig_deserialize(v)
    IN  IF ~inner.res.ok THEN ErrValue(inner.res.err)
        ELSE ServerSideEncryption_try_from(unwrap(inner.value))

\* to_value(x): the JSON value is written.
ServerSideEncryption_to_value(x) ==
    /\ wire' = Some(to_value(x))
    /\ last' = Call("to_value", x, Ok)
    /\ UNCHANGED <<cbb, ubb, crb, req, input, sse, lrb, lbb, decoded, posts>>

\* from_value(v): the decoded value, if there is one, is kept.
ServerSideEncryption_from_value(v) ==
    /\ LET res == from_value(v)
       IN  /\ sse' = res.value
           /\ last' = Call("from_value", v, res.res)
    /\ UNCHANGED <<cbb, ubb, crb, req, input, wire, lrb, lbb, decoded, posts>>

(***************************************************************************)
(* The values of a response: FileRetentionPolicy, FileLockConfiguration,   *)
(* BucketEncryptionInfo and Bucket, as serde reads them from JSON.         *)
(***************************************************************************)
JsonBool(b) == [kind |-> "bool", map |-> <<b>>]
JsonNumber(n) == [kind |-> "number", map |-> <<n>>]

JsonArray(elements) == [kind |-> "array", map |-> elements]

is_bool(v) == v.kind = "bool"
is_array(v) == v.kind = "array"
is_number(v) == v.kind = "number"
as_bool(v) == v.map[1]
as_number(v) == v.map[1]

has_key(object, key) == key \in DOMAIN object.map

\* A call that returns a value.
CallReturning(op, arg, value) ==
    [op |-> op, arg |-> arg, ok |-> TRUE, err |-> "", report |-> <<>>,
     value |-> value]

\* The names serde gives the variants: rename_all = "lowercase" for
\* FileRetentionMode, the names of the variants for PeriodUnit.
FileRetentionMode_rename ==
    [Governance |-> "governance", Compliance |-> "compliance"]
PeriodUnit_rename == [Days |-> "Days", Years |-> "Years"]

Period(duration, unit) == [duration |-> duration, unit |-> unit]

\* Duration::num_days: the whole days, rounded towards zero.
num_days(age) ==
    IF age.days >= 0 \/ age.millis = 0 THEN age.days ELSE age.days + 1

\* `as u32` of a number of days from 0 to 2^31 - 1, which the cast keeps;
\* the durations of the model are not negative.
as_u32(n) == n

\* impl From<chrono::Duration> for Period
Period_from(duration) == Period(as_u32(num_days(duration)), "Days")

\* #[derive(Deserialize)] of Period: both fields are required.
Period_deserialize(v) ==
    IF ~is_object(v) THEN ErrValue("invalid type")
    ELSE IF ~has_key(v, "duration") \/ ~has_key(v, "unit")
    THEN ErrValue("missing field")
    ELSE IF ~is_number(v.map["duration"]) THEN ErrValue("invalid type")
    \* u32: the numbers of the model are below 2^31
    ELSE IF as_number(v.map["duration"]) < 0 THEN ErrValue("invalid value")
    ELSE IF ~is_string(v.map["unit"]) THEN ErrValue("invalid type")
    ELSE IF ~is_variant(PeriodUnit_rename, as_str(v.map["unit"]))
    THEN ErrValue("unknown variant")
    ELSE OkValue(Period(as_number(v.map["duration"]),
                        variant_of(PeriodUnit_rename, as_str(v.map["unit"]))))

\* Option<Period> from JSON
deserialize_option_period(v) ==
    IF is_null(v) THEN OkValue(None)
    ELSE LET period == Period_deserialize(v)
         IN  IF period.res.ok THEN OkValue(Some(unwrap(period.value)))
             ELSE ErrValue(period.res.err)

FileRetentionPolicy(mode, period) ==
    [type |-> "FileRetentionPolicy", mode |-> mode, period |-> period]

\* #[derive(Default)] of FileRetentionPolicy
FileRetentionPolicy_default == FileRetentionPolicy(None, None)

\* FileRetentionPolicy::new
FileRetentionPolicy_new(mode, duration) ==
    FileRetentionPolicy(Some(mode), Some(Period_from(duration)))

\* #[derive(Deserialize)] of FileRetentionPolicy: a missing or null field is
\* None, keys it does not know are ignored.
FileRetentionPolicy_deserialize(v) ==
    IF ~is_object(v) THEN ErrValue("invalid type")
    ELSE LET mode == deserialize_option_enum(get(v, "mode"),
                                             FileRetentionMode_rename)
             period == deserialize_option_period(get(v, "period"))
         IN  IF ~mode.res.ok THEN ErrValue(mode.res.err)
             ELSE IF ~period.res.ok THEN ErrValue(period.res.err)
             ELSE OkValue(FileRetentionPolicy(unwrap(mode.value),
                                              unwrap(period.value)))

FileLockConfiguration(can_read, file_lock_enabled, retention) ==
    [type |-> "FileLockConfiguration", can_read |-> can_read,
     file_lock_enabled |-> file_lock_enabled, retention |-> retention]

\* #[derive(Deserialize)] of FileLockConfiguration: the three fields are
\* required.
FileLockConfiguration_deserialize(v) ==
    IF ~is_object(v) THEN ErrValue("invalid type")
    ELSE IF \E k \in {"isClientAuthorizedToRead", "isFileLockEnabled", "value"} :
                ~has_key(v, k)
    THEN ErrValue("missing field")
    ELSE IF ~is_bool(v.map["isClientAuthorizedToRead"])
                \/ ~is_bool(v.map["isFileLockEnabled"])
    THEN ErrValue("invalid type")
    ELSE LET retention == FileRetentionPolicy_deserialize(v.map["value"])
         IN  IF ~retention.res.ok THEN ErrValue(retention.res.err)
             ELSE OkValue(FileLockConfiguration(
                              as_bool(v.map["isClientAuthorizedToRead"]),
                              as_bool(v.map["isFileLockEnabled"]),
                              unwrap(retention.value)))

\* A mutation of lock_is_enabled: the flag is returned whether it can be
\* read or not.
lock_is_enabled_unguarded(self) == Some(self.file_lock_enabled)

\* FileLockConfiguration::lock_is_enabled
lock_is_enabled(self) ==
    IF self.can_read THEN Some(self.file_lock_enabled) ELSE None

\* FileLockConfiguration::retention_policy
retention_policy(self) ==
    IF self.can_read THEN Some(self.retention) ELSE None

BucketEncryptionInfo(is_client_authorized_to_read, value) ==
    [type |-> "BucketEncryptionInfo",
     is_client_authorized_to_read |-> is_client_authorized_to_read,
     value |-> value]

\* #[derive(Deserialize)] of BucketEncryptionInfo: the flag is required, a
\* missing or null value is None.
BucketEncryptionInfo_deserialize(v) ==
    IF ~is_object(v) THEN ErrValue("invalid type")
    ELSE IF ~has_key(v, "isClientAuthorizedToRead")
    THEN ErrValue("missing field")
    ELSE IF ~is_bool(v.map["isClientAuthorizedToRead"])
    THEN ErrValue("invalid type")
    ELSE IF is_null(get(v, "value"))
    THEN OkValue(BucketEncryptionInfo(
                     as_bool(v.map["isClientAuthorizedToRead"]), None))
    ELSE LET value == from_value(v.map["value"])
         IN  IF ~value.res.ok THEN ErrValue(value.res.err)
             ELSE OkValue(BucketEncryptionInfo(
                              as_bool(v.map["isClientAuthorizedToRead"]),
                              value.value))

\* BucketEncryptionInfo::can_read
can_read(self) == self.is_client_authorized_to_read

\* BucketEncryptionInfo::settings
settings(self) == self.value

\* The keys of a bucket response; all but options are required.
Bucket_required ==
    {"accountId", "bucketId", "bucketName", "bucketType", "bucketInfo",
     "corsRules", "fileLockConfiguration", "defaultServerSideEncryption",
     "lifecycleRules", "revision"}

\* #[derive(Deserialize)] of Bucket, as far as its file lock and encryption
\* go: file_lock_configuration is read as a FileRetentionPolicy.
Bucket_deserialize(v) ==
    IF ~is_object(v) THEN ErrValue("invalid type")
    ELSE IF \E k \in Bucket_required : ~has_key(v, k)
    THEN ErrValue("missing field")
    ELSE IF ~is_array(v.map["corsRules"]) \/ ~is_array(v.map["lifecycleRules"])
    THEN ErrValue("invalid type")
    ELSE LET lock == FileRetentionPolicy_deserialize(
                         v.map["fileLockConfiguration"])
             enc == BucketEncryptionInfo_deserialize(
                        v.map["defaultServerSideEncryption"])
         IN  IF ~lock.res.ok THEN ErrValue(lock.res.err)
             ELSE IF ~enc.res.ok THEN ErrValue(enc.res.err)
             ELSE OkValue([type |-> "Bucket",
                           bucket_id |-> v.map["bucketId"],
                           bucket_name |-> v.map["bucketName"],
                           file_lock_configuration |-> unwrap(lock.value),
                           default_server_side_encryption |-> unwrap(enc.value)])

\* Bucket::retention_policy
bucket_retention_policy(self) == self.file_lock_configuration

\* Bucket::encryption_info
bucket_encryption_info(self) == self.default_server_side_encryption

\* FileRetentionPolicy::new(mode, duration)
Construct_new(mode, duration) ==
    /\ decoded' = Some(FileRetentionPolicy_new(mode, duration))
    /\ last' = Call("FileRetentionPolicy::new",
                    [mode |-> mode, duration |-> duration], Ok)
    /\ UNCHANGED <<cbb, ubb, crb, req, input, wire, sse, lrb, lbb, posts>>

\* FileRetentionPolicy::default()
Construct_default ==
    /\ decoded' = Some(FileRetentionPolicy_default)
    /\ last' = Call("FileRetentionPolicy::default", <<>>, Ok)
    /\ UNCHANGED <<cbb, ubb, crb, req, input, wire, sse, lrb, lbb, posts>>

\* serde_json::from_value::<T>(v): the decoded value, if there is one, is
\* kept.
Decode(op, res, v) ==
    /\ decoded' = res.value
    /\ last' = Call(op, v, res.res)
    /\ UNCHANGED <<cbb, ubb, crb, req, input, wire, sse, lrb, lbb, posts>>

FileRetentionPolicy_from_value(v) ==
    Decode("from_value::<FileRetentionPolicy>",
           FileRetentionPolicy_deserialize(v), v)

FileLockConfiguration_from_value(v) ==
    Decode("from_value::<FileLockConfiguration>",
           FileLockConfiguration_deserialize(v), v)

BucketEncryptionInfo_from_value(v) ==
    Decode("from_value::<BucketEncryptionInfo>",
           BucketEncryptionInfo_deserialize(v), v)

Bucket_from_value(v) ==
    Decode("from_value::<Bucket>", Bucket_deserialize(v), v)

\* An accessor of the value decoded last is called; the value stays.
Access(type, op, value) ==
    /\ is_some(decoded)
    /\ unwrap(decoded).type = type
    /\ last' = CallReturning(op, unwrap(decoded), value)
    /\ UNCHANGED <<cbb, ubb, crb, req, input, wire, sse, lrb, lbb, decoded,
                   posts>>

FileLockConfiguration_lock_is_enabled ==
    Access("FileLockConfiguration", "FileLockConfiguration::lock_is_enabled",
           lock_is_enabled(unwrap(decoded)))

FileLockConfiguration_retention_policy ==
    Access("FileLockConfiguration", "FileLockConfiguration::retention_policy",
           retention_policy(unwrap(decoded)))

BucketEncryptionInfo_settings ==
    Access("BucketEncryptionInfo", "BucketEncryptionInfo::settings",
           settings(unwrap(decoded)))

Bucket_retention_policy ==
    Access("Bucket", "Bucket::retention_policy",
           bucket_retention_policy(unwrap(decoded)))

\* Bucket::encryption_info: the caller goes on with the info of the bucket.
Bucket_encryption_info ==
    /\ is_some(decoded)
    /\ unwrap(decoded).type = "Bucket"
    /\ decoded' = Some(bucket_encryption_info(unwrap(decoded)))
    /\ last' = CallReturning("Bucket::encryption_info", unwrap(decoded),
                             bucket_encryption_info(unwrap(decoded)))
    /\ UNCHANGED <<cbb, ubb, crb, req, input, wire, sse, lrb, lbb, posts>>

(***************************************************************************)
(* LifecycleRuleBuilder.  validate::validated_file_name is not part of     *)
(* bucket.rs; the specification gives no rule for a prefix but that the    *)
(* empty one is valid, so every prefix of the model passes.                *)
(***************************************************************************)
validated_file_name(name) == Ok

\* u16::MAX
U16Max == 65535

\* #[derive(Default)] of LifecycleRuleBuilder
LifecycleRuleBuilder_default ==
    [prefix |-> None, delete_after |-> None, hide_after |-> None]

\* LifecycleRule::builder()
LifecycleRule_builder ==
    /\ lrb' = Some(LifecycleRuleBuilder_default)
    /\ cbb' = None
    /\ ubb' = None
    /\ crb' = None
    /\ lbb' = None
    /\ req' = None
    /\ last' = Call("LifecycleRule::builder", <<>>, Ok)
    /\ UNCHANGED <<input, wire, sse, decoded, posts>>

\* LifecycleRuleBuilder::filename_prefix
LifecycleRuleBuilder_filename_prefix(prefix) ==
    /\ is_some(lrb)
    /\ LET res == validated_file_name(prefix)
       IN  /\ lrb' = IF res.ok
                     THEN Some([unwrap(lrb) EXCEPT !.prefix = Some(prefix)])
                     ELSE None
           /\ last' = Call("LifecycleRuleBuilder::filename_prefix", prefix, res)
    /\ UNCHANGED <<cbb, ubb, crb, req, input, wire, sse, lbb, decoded, posts>>

\* A mutation of days_result: the days are not compared with u16::MAX.
days_result_no_maximum(days) ==
    IF num_days(days) < 1
    THEN ErrMessage("OutOfBounds", "Number of days must be greater than zero")
    ELSE Ok

\* The Result of hide_after_upload and delete_after_hide for a duration.
days_result(days) ==
    IF num_days(days) < 1
    THEN ErrMessage("OutOfBounds", "Number of days must be greater than zero")
    ELSE IF num_days(days) > U16Max
    THEN ErrMessage("OutOfBounds", "Number of days cannot exceed")
    ELSE Ok

\* LifecycleRuleBuilder::hide_after_upload
LifecycleRuleBuilder_hide_after_upload(days) ==
    /\ is_some(lrb)
    /\ LET res == days_result(days)
       IN  /\ lrb' = IF res.ok
                     THEN Some([unwrap(lrb) EXCEPT
                                   !.hide_after = Some(as_u16(num_days(days)))])
                     ELSE None
           /\ last' = Call("LifecycleRuleBuilder::hide_after_upload", days, res)
    /\ UNCHANGED <<cbb, ubb, crb, req, input, wire, sse, lbb, decoded, posts>>

\* LifecycleRuleBuilder::delete_after_hide
LifecycleRuleBuilder_delete_after_hide(days) ==
    /\ is_some(lrb)
    /\ LET res == days_result(days)
       IN  /\ lrb' = IF res.ok
                     THEN Some([unwrap(lrb) EXCEPT
                                   !.delete_after = Some(as_u16(num_days(days)))])
                     ELSE None
           /\ last' = Call("LifecycleRuleBuilder::delete_after_hide", days, res)
    /\ UNCHANGED <<cbb, ubb, crb, req, input, wire, sse, lbb, decoded, posts>>

\* A mutation of lifecycle_build_result: the two checks change places.
lifecycle_build_result_rule_first(self) ==
    IF self.hide_after = None /\ self.delete_after = None
    THEN ErrMessage("Incompatible",
                    "The rule must have at least one of a hide or deletion rule")
    ELSE IF self.prefix = None
    THEN ErrMessage("MissingData", "Rule must have a filename prefix")
    ELSE Ok

\* The Result of LifecycleRuleBuilder::build on the builder self.
lifecycle_build_result(self) ==
    IF self.prefix = None
    THEN ErrMessage("MissingData", "Rule must have a filename prefix")
    ELSE IF self.hide_after = None /\ self.delete_after = None
    THEN ErrMessage("Incompatible",
                    "The rule must have at least one of a hide or deletion rule")
    ELSE Ok

\* LifecycleRuleBuilder::build: the builder is consumed.
LifecycleRuleBuilder_build ==
    /\ is_some(lrb)
    /\ LET self == unwrap(lrb)
           res == lifecycle_build_result(self)
       IN  /\ req' = IF res.ok
                     THEN Some(LifecycleRule(unwrap(self.prefix),
                                             self.delete_after, self.hide_after))
                     ELSE None
           /\ last' = Call("LifecycleRuleBuilder::build", self, res)
    /\ lrb' = None
    /\ UNCHANGED <<cbb, ubb, crb, input, wire, sse, lbb, decoded, posts>>

(***************************************************************************)
(* The setters of CreateBucketBuilder and UpdateBucketBuilder for the      *)
(* bucket info, the Cache-Control, the file lock, the retention and the    *)
(* encryption.  A CacheControl is the value of its header.                 *)
(***************************************************************************)
\* CreateBucketBuilder::bucket_info
CreateBucketBuilder_bucket_info(info) ==
    /\ is_some(cbb)
    /\ IF is_object(info)
       THEN /\ cbb' = Some([unwrap(cbb) EXCEPT !.bucket_info = Some(info)])
            /\ last' = Call("CreateBucketBuilder::bucket_info", info, Ok)
       ELSE /\ cbb' = None
            /\ last' = Call("CreateBucketBuilder::bucket_info", info,
                            ErrMessage("BadFormat",
                                       "Bucket info must be a JSON object"))
    /\ UNCHANGED <<ubb, crb, req, input, wire, sse, lrb, lbb, decoded, posts>>

\* CreateBucketBuilder::cache_control
CreateBucketBuilder_cache_control(cache_control) ==
    /\ is_some(cbb)
    /\ cbb' = Some([unwrap(cbb) EXCEPT !.cache_control = Some(cache_control)])
    /\ last' = Call("CreateBucketBuilder::cache_control", cache_control, Ok)
    /\ UNCHANGED <<ubb, crb, req, input, wire, sse, lrb, lbb, decoded, posts>>

\* CreateBucketBuilder::with_file_lock
CreateBucketBuilder_with_file_lock ==
    /\ is_some(cbb)
    /\ cbb' = Some([unwrap(cbb) EXCEPT !.file_lock_enabled = TRUE])
    /\ last' = Call("CreateBucketBuilder::with_file_lock", <<>>, Ok)
    /\ UNCHANGED <<ubb, crb, req, input, wire, sse, lrb, lbb, decoded, posts>>

\* CreateBucketBuilder::without_file_lock
CreateBucketBuilder_without_file_lock ==
    /\ is_some(cbb)
    /\ cbb' = Some([unwrap(cbb) EXCEPT !.file_lock_enabled = FALSE])
    /\ last' = Call("CreateBucketBuilder::without_file_lock", <<>>, Ok)
    /\ UNCHANGED <<ubb, crb, req, input, wire, sse, lrb, lbb, decoded, posts>>

\* CreateBucketBuilder::encryption_settings
CreateBucketBuilder_encryption_settings(settings_) ==
    /\ is_some(cbb)
    /\ cbb' = Some([unwrap(cbb) EXCEPT
                       !.default_server_side_encryption = Some(settings_)])
    /\ last' = Call("CreateBucketBuilder::encryption_settings", settings_, Ok)
    /\ UNCHANGED <<ubb, crb, req, input, wire, sse, lrb, lbb, decoded, posts>>

\* UpdateBucketBuilder::bucket_info: the info is stored as it is.
UpdateBucketBuilder_bucket_info(info) ==
    /\ is_some(ubb)
    /\ ubb' = Some([unwrap(ubb) EXCEPT !.bucket_info = Some(info)])
    /\ last' = Call("UpdateBucketBuilder::bucket_info", info, Ok)
    /\ UNCHANGED <<cbb, crb, req, input, wire, sse, lrb, lbb, decoded, posts>>

\* UpdateBucketBuilder::cache_control
UpdateBucketBuilder_cache_control(cache_control) ==
    /\ is_some(ubb)
    /\ ubb' = Some([unwrap(ubb) EXCEPT !.cache_control = Some(cache_control)])
    /\ last' = Call("UpdateBucketBuilder::cache_control", cache_control, Ok)
    /\ UNCHANGED <<cbb, crb, req, input, wire, sse, lrb, lbb, decoded, posts>>

\* UpdateBucketBuilder::retention_policy
UpdateBucketBuilder_retention_policy(policy) ==
    /\ is_some(ubb)
    /\ ubb' = Some([unwrap(ubb) EXCEPT !.default_retention = Some(policy)])
    /\ last' = Call("UpdateBucketBuilder::retention_policy", policy, Ok)
    /\ UNCHANGED <<cbb, crb, req, input, wire, sse, lrb, lbb, decoded, posts>>

\* UpdateBucketBuilder::encryption_settings
UpdateBucketBuilder_encryption_settings(settings_) ==
    /\ is_some(ubb)
    /\ ubb' = Some([unwrap(ubb) EXCEPT
                       !.default_server_side_encryption = Some(settings_)])
    /\ last' = Call("UpdateBucketBuilder::encryption_settings", settings_, Ok)
    /\ UNCHANGED <<cbb, crb, req, input, wire, sse, lrb, lbb, decoded, posts>>

(***************************************************************************)
(* ListBuckets, its builder and its JSON form.                             *)
(***************************************************************************)
\* BucketRef::Id and BucketRef::Name
BucketRef_Id(s) == [variant |-> "Id", value |-> s]
BucketRef_Name(s) == [variant |-> "Name", value |-> s]

\* Display of BucketType, and #[serde(rename)] of its variants
BucketType_rename ==
    [Public |-> "allPublic", Private |-> "allPrivate", Snapshot |-> "snapshot"]

\* BucketFilter::Type and BucketFilter::All
BucketFilter_Type(t) == [variant |-> "Type", value |-> <<t>>]
BucketFilter_All == [variant |-> "All", value |-> <<>>]

\* impl From<&BucketType> for BucketFilter
BucketFilter_from(t) == BucketFilter_Type(t)

\* Display of BucketFilter
BucketFilter_to_string(f) ==
    IF f.variant = "All" THEN "all" ELSE BucketType_rename[f.value[1]]

\* #[derive(Default)] of ListBucketsBuilder
ListBucketsBuilder_default == [bucket |-> None, bucket_types |-> None]

\* ListBuckets::builder()
ListBuckets_builder ==
    /\ lbb' = Some(ListBucketsBuilder_default)
    /\ cbb' = None
    /\ ubb' = None
    /\ crb' = None
    /\ lrb' = None
    /\ req' = None
    /\ last' = Call("ListBuckets::builder", <<>>, Ok)
    /\ UNCHANGED <<input, wire, sse, decoded, posts>>

\* ListBucketsBuilder::bucket_id
ListBucketsBuilder_bucket_id(id) ==
    /\ is_some(lbb)
    /\ lbb' = Some([unwrap(lbb) EXCEPT !.bucket = Some(BucketRef_Id(id))])
    /\ last' = Call("ListBucketsBuilder::bucket_id", id, Ok)
    /\ UNCHANGED <<cbb, ubb, crb, req, input, wire, sse, lrb, decoded, posts>>

\* ListBucketsBuilder::bucket_name
ListBucketsBuilder_bucket_name(name) ==
    /\ is_some(lbb)
    /\ LET res == validated_bucket_name(name)
       IN  /\ lbb' = IF res.ok
                     THEN Some([unwrap(lbb) EXCEPT
                                   !.bucket = Some(BucketRef_Name(name))])
                     ELSE None
           /\ last' = Call("ListBucketsBuilder::bucket_name", name, res)
    /\ UNCHANGED <<cbb, ubb, crb, req, input, wire, sse, lrb, decoded, posts>>

\* ListBucketsBuilder::bucket_types
ListBucketsBuilder_bucket_types(types) ==
    /\ is_some(lbb)
    /\ lbb' = Some([unwrap(lbb) EXCEPT
                       !.bucket_types =
                           Some([i \in 1..Len(types) |->
                                     BucketFilter_from(types[i])])])
    /\ last' = Call("ListBucketsBuilder::bucket_types", types, Ok)
    /\ UNCHANGED <<cbb, ubb, crb, req, input, wire, sse, lrb, decoded, posts>>

\* ListBucketsBuilder::with_all_bucket_types
ListBucketsBuilder_with_all_bucket_types ==
    /\ is_some(lbb)
    /\ lbb' = Some([unwrap(lbb) EXCEPT
                       !.bucket_types = Some(<<BucketFilter_All>>)])
    /\ last' = Call("ListBucketsBuilder::with_all_bucket_types", <<>>, Ok)
    /\ UNCHANGED <<cbb, ubb, crb, req, input, wire, sse, lrb, decoded, posts>>

\* ListBucketsBuilder::build: it cannot fail.
ListBucketsBuilder_build ==
    /\ is_some(lbb)
    /\ req' = Some([request |-> "ListBuckets",
                    account_id |-> None,
                    bucket |-> unwrap(lbb).bucket,
                    bucket_types |-> unwrap(lbb).bucket_types])
    /\ last' = Call("ListBucketsBuilder::build", unwrap(lbb), Ok)
    /\ lbb' = None
    /\ UNCHANGED <<cbb, ubb, crb, input, wire, sse, lrb, decoded, posts>>

\* A mutation of InnerListBuckets_from: the string of the bucket is the id
\* and the name.
InnerListBuckets_from_both(other) ==
    [account_id |-> other.account_id,
     bucket_id |-> IF is_some(other.bucket)
                   THEN Some(unwrap(other.bucket).value) ELSE None,
     bucket_name |-> IF is_some(other.bucket)
                     THEN Some(unwrap(other.bucket).value) ELSE None,
     bucket_types |-> IF is_some(other.bucket_types)
                      THEN Some([i \in 1..Len(unwrap(other.bucket_types)) |->
                                    BucketFilter_to_string(
                                        unwrap(other.bucket_types)[i])])
                      ELSE None]

\* impl From<ListBuckets> for InnerListBuckets
InnerListBuckets_from(other) ==
    [account_id |-> other.account_id,
     bucket_id |-> IF is_some(other.bucket)
                       /\ unwrap(other.bucket).variant = "Id"
                   THEN Some(unwrap(other.bucket).value) ELSE None,
     bucket_name |-> IF is_some(other.bucket)
                         /\ unwrap(other.bucket).variant = "Name"
                     THEN Some(unwrap(other.bucket).value) ELSE None,
     bucket_types |-> IF is_some(other.bucket_types)
                      THEN Some([i \in 1..Len(unwrap(other.bucket_types)) |->
                                    BucketFilter_to_string(
                                        unwrap(other.bucket_types)[i])])
                      ELSE None]

\* The JSON of an Option<String>: null or the string.
option_string_to_value(o) ==
    IF is_some(o) THEN JsonString(unwrap(o)) ELSE JsonNull

\* #[derive(Serialize)] of InnerListBuckets: accountId is always written,
\* the other keys only when they are Some.
InnerListBuckets_serialize(self) ==
    JsonObject(
        [k \in {"accountId"}
               \cup (IF is_some(self.bucket_id) THEN {"bucketId"} ELSE {})
               \cup (IF is_some(self.bucket_name) THEN {"bucketName"} ELSE {})
               \cup (IF is_some(self.bucket_types) THEN {"bucketTypes"} ELSE {})
           |-> IF k = "accountId" THEN option_string_to_value(self.account_id)
               ELSE IF k = "bucketId" THEN JsonString(unwrap(self.bucket_id))
               ELSE IF k = "bucketName" THEN JsonString(unwrap(self.bucket_name))
               ELSE JsonArray([i \in 1..Len(unwrap(self.bucket_types)) |->
                                  JsonString(unwrap(self.bucket_types)[i])])])

\* serde_json::to_value of a ListBuckets, #[serde(into = "InnerListBuckets")]
ListBuckets_to_value(list_info) ==
    InnerListBuckets_serialize(InnerListBuckets_from(list_info))

(***************************************************************************)
(* The calls of the B2 API.  Authorization, its capabilities, the macro    *)
(* require_capability! and the HttpClient are not part of bucket.rs: an    *)
(* authorization is its account id and its set of capabilities, the macro  *)
(* returns an error from the call when the capability is not in the set    *)
(* (section 6 of the specification), and a post that was sent comes back   *)
(* with a response or with an error of the client.  posts is what the call *)
(* in progress has sent.                                                   *)
(***************************************************************************)
Capabilities ==
    {"WriteBuckets", "WriteBucketRetentions", "WriteBucketEncryption",
     "DeleteBuckets", "ListBuckets"}

\* require_capability!(auth, capability)
require_capability(auth, capability) ==
    IF capability \in auth.capabilities THEN Ok ELSE Err("Unauthorized")

\* The first error of the checks, in their order, or Ok.
RECURSIVE first_error(_)
first_error(checks) ==
    IF checks = <<>> THEN Ok
    ELSE IF ~checks[1].ok THEN checks[1]
    ELSE first_error(Tail(checks))

\* A mutation of create_bucket_checks: the file lock asks for no capability.
create_bucket_checks_without_retentions(auth, new_bucket_info) ==
    first_error(
        <<require_capability(auth, "WriteBuckets")>>
            \o (IF is_some(new_bucket_info.default_server_side_encryption)
                THEN <<require_capability(auth, "WriteBucketEncryption")>>
                ELSE <<>>))

\* The capability checks of create_bucket.
create_bucket_checks(auth, new_bucket_info) ==
    first_error(
        <<require_capability(auth, "WriteBuckets")>>
            \o (IF new_bucket_info.file_lock_enabled
                THEN <<require_capability(auth, "WriteBucketRetentions")>>
                ELSE <<>>)
            \o (IF is_some(new_bucket_info.default_server_side_encryption)
                THEN <<require_capability(auth, "WriteBucketEncryption")>>
                ELSE <<>>))

\* The capability checks of update_bucket.
update_bucket_checks(auth, bucket_info) ==
    first_error(
        <<require_capability(auth, "WriteBuckets")>>
            \o (IF is_some(bucket_info.default_retention)
                THEN <<require_capability(auth, "WriteBucketRetentions")>>
                ELSE <<>>)
            \o (IF is_some(bucket_info.default_server_side_encryption)
                THEN <<require_capability(auth, "WriteBucketEncryption")>>
                ELSE <<>>))

\* auth.client.post(auth.api_url(name)) ... .send().await
Post(name, body) == [url |-> name, body |-> body]

\* A call of the API: its checks, and when they pass the post and the
\* result of the client.
ApiCall(op, arg, checks, post) ==
    IF ~checks.ok
    THEN /\ posts' = <<>>
         /\ last' = Call(op, arg, checks)
    ELSE /\ posts' = <<post>>
         /\ \E sent \in {Ok, Err("Client")} : last' = Call(op, arg, sent)

\* The request with the account id of the authorization.
with_account_id(auth, request) ==
    [request EXCEPT !.account_id = Some(auth.account_id)]

\* create_bucket(auth, new_bucket_info): the request is moved into the call;
\* the body of the post is the JSON of the request with the account id.
create_bucket(auth) ==
    /\ is_some(req)
    /\ unwrap(req).request = "CreateBucket"
    /\ ApiCall("create_bucket", unwrap(req),
               create_bucket_checks(auth, unwrap(req)),
               Post("b2_create_bucket", with_account_id(auth, unwrap(req))))
    /\ req' = None
    /\ UNCHANGED <<cbb, ubb, crb, input, wire, sse, lrb, lbb, decoded>>

\* update_bucket(auth, bucket_info)
update_bucket(auth) ==
    /\ is_some(req)
    /\ unwrap(req).request = "UpdateBucket"
    /\ ApiCall("update_bucket", unwrap(req),
               update_bucket_checks(auth, unwrap(req)),
               Post("b2_update_bucket", with_account_id(auth, unwrap(req))))
    /\ req' = None
    /\ UNCHANGED <<cbb, ubb, crb, input, wire, sse, lrb, lbb, decoded>>

\* delete_bucket(auth, bucket_id)
delete_bucket(auth, bucket_id) ==
    /\ ApiCall("delete_bucket", bucket_id,
               require_capability(auth, "DeleteBuckets"),
               Post("b2_delete_bucket",
                    JsonObject("accountId" :> JsonString(auth.account_id)
                                   @@ "bucketId" :> JsonString(bucket_id))))
    /\ UNCHANGED <<cbb, ubb, crb, req, input, wire, sse, lrb, lbb, decoded>>

\* list_buckets(auth, list_info)
list_buckets(auth) ==
    /\ is_some(req)
    /\ unwrap(req).request = "ListBuckets"
    /\ ApiCall("list_buckets", unwrap(req),
               require_capability(auth, "ListBuckets"),
               Post("b2_list_buckets",
                    ListBuckets_to_value(with_account_id(auth, unwrap(req)))))
    /\ req' = None
    /\ UNCHANGED <<cbb, ubb, crb, input, wire, sse, lrb, lbb, decoded>>

(***************************************************************************)
(* The inputs of the lifecycle specification.                              *)
(***************************************************************************)
SeqsUpTo(S, n) == UNION {[1..k -> S] : k \in 0..n}

\* A rule as LifecycleRuleBuilder builds it: delete files five days after
\* they are hidden.
RuleOf(prefix) == LifecycleRule(prefix, Some(5), None)

RulesOf(prefixes) == [i \in 1..Len(prefixes) |-> RuleOf(prefixes[i])]

PrefixPool ==
    {"", "Doc", "Docs/", "Docs/Documents/", "Docs/Photos/",
     "Docs/Photos/Vacations/", "Legal/"}

\* The two examples of the documentation of lifecycle_rules.
DocExample1 ==
    <<"Docs/Photos/", "Legal/", "Legal/Taxes/", "Archive/", "Archive/Temporary/">>

DocExample2 ==
    <<"Docs/Photos/", "Docs/", "Docs/Documents/", "Legal/Taxes/",
      "Docs/Photos/Vacations/", "Archive/">>

Reverse(v) == [i \in 1..Len(v) |-> v[Len(v) + 1 - i]]

PrefixLists ==
    SeqsUpTo(PrefixPool, MaxRules)
        \cup {DocExample1, DocExample2, Reverse(DocExample1), Reverse(DocExample2)}

RuleLists == {RulesOf(p) : p \in PrefixLists}

BucketNames == {"my-bucket", "b2-bucket"}
BucketTypes == {"Public", "Snapshot"}
BucketIds == {"8d625eb63be2775577c70e1a"}

(***************************************************************************)
(* The lifecycle specification: the chains of CreateBucketBuilder and      *)
(* UpdateBucketBuilder that set lifecycle rules.                           *)
(***************************************************************************)
NoChain ==
    /\ cbb = None
    /\ ubb = None
    /\ crb = None
    /\ req = None
    /\ last = Call("", <<>>, Ok)
    /\ wire = None
    /\ sse = None
    /\ lrb = None
    /\ lbb = None
    /\ decoded = None
    /\ posts = <<>>

InitLifecycle ==
    /\ NoChain
    /\ input \in RuleLists

NextLifecycle ==
    \/ CreateBucket_builder
    \/ \E name \in BucketNames : CreateBucketBuilder_name(name)
    \/ \E typ \in BucketTypes : CreateBucketBuilder_bucket_type(typ)
    \/ CreateBucketBuilder_lifecycle_rules(input)
    \/ CreateBucketBuilder_build
    \/ UpdateBucket_builder
    \/ \E id \in BucketIds : UpdateBucketBuilder_bucket_id(id)
    \/ UpdateBucketBuilder_lifecycle_rules(input)
    \/ UpdateBucketBuilder_build

SpecLifecycle == InitLifecycle /\ [][NextLifecycle]_vars

(***************************************************************************)
(* The origin specification: the chains of CorsRuleBuilder that set        *)
(* origins.                                                                *)
(***************************************************************************)
\* The lists the test cors_rule_validates_origins expects to be accepted.
valid_origins ==
    {<<"https://*", "http://*">>,
     <<"*">>,
     <<"https://example.com", "http://example.com:1234">>,
     <<"https", "http", "http://example.com:1234">>,
     <<"https://*:8765", "http://www.example.com:4545">>,
     <<"https://*.example.com", "http://www.example.com">>}

\* The lists the test cors_rule_validates_origins expects to be rejected.
bad_origins ==
    {<<"*", "https://*">>,
     <<"ftp://example.com">>,
     <<"ftp://*.*.example.com">>,
     <<"https://*:8765", "www.example.com:4545">>,
     <<"https://*:8765", "https://www.example.com:4545">>}

OriginPool ==
    {"*", "https", "http", "https://*", "http://*", "https://*:8765",
     "https://www.example.com:4545", "http://www.example.com:4545",
     "https://example.com", "http://example.com:1234",
     "https://*.example.com", "ftp://example.com", "www.example.com:4545",
     "https://*.*.example.com", "http*://example.com",
     "https://example.com:*", "http://example.com:12x4"}

OriginLists == SeqsUpTo(OriginPool, MaxOrigins) \cup valid_origins \cup bad_origins

InitOrigins ==
    /\ NoChain
    /\ input \in OriginLists

\* The caller sets the first k origins of its list at once and adds the
\* following ones one at a time.
NextOrigins ==
    \/ CorsRule_builder
    \/ \E k \in 0..Len(input) :
           CorsRuleBuilder_allowed_origins(SubSeq(input, 1, k))
    \/ /\ is_some(crb)
       /\ Len(unwrap(crb).allowed_origins) < Len(input)
       /\ CorsRuleBuilder_add_allowed_origin(
              input[Len(unwrap(crb).allowed_origins) + 1])

SpecOrigins == InitOrigins /\ [][NextOrigins]_vars

(***************************************************************************)
(* The CORS rule specification: the chains of CorsRuleBuilder from         *)
(* builder() to build().  Init draws what the caller passes: a name, the   *)
(* lists of origins, operations, allowed and exposed headers, and an age.  *)
(***************************************************************************)
\* s repeated n times
RECURSIVE Repeat(_, _)
Repeat(s, n) ==
    IF n = 0 THEN ""
    ELSE IF n % 2 = 0 THEN LET h == Repeat(s, n \div 2) IN h \o h
    ELSE s \o Repeat(s, n - 1)

\* A string of n bytes that begins with prefix.
Pad(prefix, n) == prefix \o Repeat("a", n - Len(prefix))

CorsBase ==
    [name |-> "my-rule",
     origins |-> <<"https://example.com">>,
     ops |-> <<"UploadFile">>,
     headers |-> <<>>,
     exposed |-> <<>>,
     age |-> Duration_seconds(3600)]

\* The bytes of the name and of the operation tag of CorsBase.
CorsBaseFixed == Len("my-rule") + Len("b2_upload_file")

\* The bytes of the strings of CorsBase.
CorsBaseBytes == CorsBaseFixed + Len("https://example.com")

\* The totals of string bytes around the limit.
Totals == {MaxBytes - 3, MaxBytes - 2, MaxBytes - 1, MaxBytes, MaxBytes + 200}

HeaderLists ==
    {<<"*">>, <<"*", "X-Bz-Content-Sha1">>, <<"Content-Type", "*">>,
     <<"X-Bz-*", "Content-Type">>, <<"bad header">>}

Ages ==
    {Duration_milliseconds(-1), Duration_zero, Duration_milliseconds(999),
     Duration_seconds(1), Duration_seconds(65535), Duration_seconds(65536),
     Duration_seconds(86399), Duration_days(1),
     Duration_milliseconds(MillisPerDay + 1), Duration_seconds(86401)}

CorsInputs ==
    {CorsBase}
        \cup {[CorsBase EXCEPT !.origins = <<Pad("https://", t - CorsBaseFixed)>>] :
                  t \in Totals}
        \cup {[CorsBase EXCEPT !.headers = <<Pad("X-", t - CorsBaseBytes)>>] :
                  t \in Totals}
        \cup {[CorsBase EXCEPT !.exposed = <<Pad("X-", t - CorsBaseBytes)>>] :
                  t \in Totals}
        \cup {[CorsBase EXCEPT !.headers = h] : h \in HeaderLists}
        \cup {[CorsBase EXCEPT !.exposed = <<"X-Bz-Content-Sha1", "ETag">>]}
        \cup {[CorsBase EXCEPT !.age = a] : a \in Ages}
        \cup {[CorsBase EXCEPT !.ops = o] : o \in {<<>>, <<"S3Get", "S3Put">>}}
        \cup {[CorsBase EXCEPT !.origins = <<>>]}
        \cup {[CorsBase EXCEPT !.name = "b2-cors-rule"]}

InitCors ==
    /\ NoChain
    /\ input \in CorsInputs

\* The length of an optional list, 0 if there is none.
len_or_zero(o) == IF is_some(o) THEN Len(unwrap(o)) ELSE 0

\* The caller sets a list at once or adds its elements one at a time.
NextCors ==
    \/ CorsRule_builder
    \/ CorsRuleBuilder_name(input.name)
    \/ CorsRuleBuilder_allowed_origins(input.origins)
    \/ /\ is_some(crb)
       /\ Len(unwrap(crb).allowed_origins) < Len(input.origins)
       /\ CorsRuleBuilder_add_allowed_origin(
              input.origins[Len(unwrap(crb).allowed_origins) + 1])
    \/ CorsRuleBuilder_allowed_operations(input.ops)
    \/ /\ is_some(crb)
       /\ Len(unwrap(crb).allowed_operations) < Len(input.ops)
       /\ CorsRuleBuilder_add_allowed_operation(
              input.ops[Len(unwrap(crb).allowed_operations) + 1])
    \/ CorsRuleBuilder_allowed_headers(input.headers)
    \/ /\ is_some(crb)
       /\ len_or_zero(unwrap(crb).allowed_headers) < Len(input.headers)
       /\ CorsRuleBuilder_add_allowed_header(
              input.headers[len_or_zero(unwrap(crb).allowed_headers) + 1])
    \/ CorsRuleBuilder_exposed_headers(input.exposed)
    \/ /\ is_some(crb)
       /\ len_or_zero(unwrap(crb).expose_headers) < Len(input.exposed)
       /\ CorsRuleBuilder_add_exposed_header(
              input.exposed[len_or_zero(unwrap(crb).expose_headers) + 1])
    \/ CorsRuleBuilder_max_age(input.age)
    \/ CorsRuleBuilder_build

SpecCors == InitCors /\ [][NextCors]_vars

(***************************************************************************)
(* The encryption specification: a ServerSideEncryption is written to     *)
(* JSON and a JSON value is read, in any order.  Init draws the value or   *)
(* the JSON the caller starts from.                                        *)
(***************************************************************************)
EncryptionValues ==
    {NoEncryption, B2Managed("Aes256")}
        \cup {SelfManaged(SelfManagedEncryption("Aes256", key, digest)) :
                  key \in {"MY-ENCODED-KEY", "c2VjcmV0"},
                  digest \in {"ENCODED-DIGEST", "Xr4ilOzQ4PCOq3aQ0qbuaQ=="}}

\* The JSON values a key can have; Absent stands for a key that is not
\* in the object.
Absent == [kind |-> "absent", map |-> <<>>]

ModeValues ==
    {Absent, JsonNull, JsonString("SSE-B2"), JsonString("SSE-C"),
     JsonString("SSE-KMS")}
AlgorithmValues == {Absent, JsonNull, JsonString("AES256"), JsonString("AES128")}
KeyValues == {Absent, JsonNull, JsonString("MY-ENCODED-KEY")}
DigestValues == {Absent, JsonNull, JsonString("ENCODED-DIGEST")}

\* The object with the given values, without the absent keys.
WireObject(mode, algorithm, key, digest) ==
    LET all == [k \in {"mode", "algorithm", "customerKey", "customerKeyMd5"}
                    |-> IF k = "mode" THEN mode
                        ELSE IF k = "algorithm" THEN algorithm
                        ELSE IF k = "customerKey" THEN key
                        ELSE digest]
        keys == {k \in DOMAIN all : all[k] # Absent}
    IN  JsonObject([k \in keys |-> all[k]])

WireValues ==
    {WireObject(m, a, k, d) :
         m \in ModeValues, a \in AlgorithmValues, k \in KeyValues,
         d \in DigestValues}
        \cup {JsonString("SSE-B2"), JsonNull}

EncryptionInputs ==
    {[kind |-> "ServerSideEncryption", value |-> x] : x \in EncryptionValues}
        \cup {[kind |-> "json", value |-> v] : v \in WireValues}

InitEncryption ==
    /\ NoChain
    /\ input \in EncryptionInputs

NextEncryption ==
    \/ /\ input.kind = "ServerSideEncryption"
       /\ ServerSideEncryption_to_value(input.value)
    \/ /\ is_some(sse)
       /\ ServerSideEncryption_to_value(unwrap(sse))
    \/ /\ input.kind = "json"
       /\ ServerSideEncryption_from_value(input.value)
    \/ /\ is_some(wire)
       /\ ServerSideEncryption_from_value(unwrap(wire))

SpecEncryption == InitEncryption /\ [][NextEncryption]_vars

(***************************************************************************)
(* The response specification: a value of a response is decoded from JSON  *)
(* or constructed, and its accessors are called.  Init draws the JSON or   *)
(* the arguments of the constructor.                                       *)
(***************************************************************************)
\* The object of the given keys, without the absent ones.
ObjectOf(all) ==
    JsonObject([k \in {j \in DOMAIN all : all[j] # Absent} |-> all[k]])

PeriodJson(duration, unit) ==
    ObjectOf("duration" :> duration @@ "unit" :> unit)

RetentionModeValues ==
    {Absent, JsonNull, JsonString("governance"), JsonString("compliance"),
     JsonString("Governance")}

PeriodValues ==
    {Absent, JsonNull,
     PeriodJson(JsonNumber(7), JsonString("Days")),
     PeriodJson(JsonNumber(1), JsonString("Years")),
     PeriodJson(JsonNumber(7), JsonString("days")),
     PeriodJson(JsonNumber(-1), JsonString("Days")),
     PeriodJson(Absent, JsonString("Days"))}

PolicyJson(mode, period) == ObjectOf("mode" :> mode @@ "period" :> period)

PolicyValues ==
    {PolicyJson(m, p) : m \in RetentionModeValues, p \in PeriodValues}

\* The policies an envelope of the model holds.
FewPolicyValues ==
    {PolicyJson(JsonNull, JsonNull),
     PolicyJson(JsonString("governance"),
                PeriodJson(JsonNumber(7), JsonString("Days"))),
     PolicyJson(JsonString("compliance"), JsonNull)}

LockValues ==
    {ObjectOf("isClientAuthorizedToRead" :> JsonBool(r)
                  @@ "isFileLockEnabled" :> JsonBool(e)
                  @@ "value" :> p) :
         r \in BOOLEAN, e \in BOOLEAN, p \in FewPolicyValues \cup {Absent}}

EncryptionInfoValues ==
    {ObjectOf("isClientAuthorizedToRead" :> JsonBool(r) @@ "value" :> v) :
         r \in BOOLEAN,
         v \in {Absent, JsonNull,
                WireObject(JsonNull, JsonNull, Absent, Absent),
                WireObject(JsonString("SSE-B2"), JsonString("AES256"),
                           Absent, Absent),
                WireObject(JsonString("SSE-B2"), Absent, Absent, Absent)}}

\* The fileLockConfiguration of a bucket response: the default retention
\* and the flag are in the value of the envelope.
BucketLockValues ==
    {ObjectOf("isClientAuthorizedToRead" :> JsonBool(r)
                  @@ "value" :> ObjectOf("defaultRetention" :> p
                                             @@ "isFileLockEnabled" :> JsonBool(e))) :
         r \in BOOLEAN, e \in BOOLEAN, p \in FewPolicyValues}

\* The response of the test deserialize_new_bucket_response, with the file
\* lock and the encryption of the model.
BucketJson(lock, enc, cors) ==
    ObjectOf("accountId" :> JsonString("abcdefg")
                 @@ "bucketId" :> JsonString("hijklmno")
                 @@ "bucketInfo" :> JsonObject("k" :> JsonString("v"))
                 @@ "bucketName" :> JsonString("some-bucket-name")
                 @@ "bucketType" :> JsonString("allPrivate")
                 @@ "corsRules" :> cors
                 @@ "defaultServerSideEncryption" :> enc
                 @@ "fileLockConfiguration" :> lock
                 @@ "lifecycleRules" :> JsonArray(<<>>)
                 @@ "options" :> JsonNull
                 @@ "revision" :> JsonNumber(2))

BucketValues ==
    {BucketJson(lock, enc, JsonArray(<<>>)) :
         lock \in BucketLockValues,
         enc \in {e \in EncryptionInfoValues :
                      has_key(e, "value") /\ is_object(e.map["value"])}}
        \cup {BucketJson(Absent, JsonNull, JsonArray(<<>>)),
              BucketJson(PolicyJson(JsonNull, JsonNull), JsonNull,
                         JsonArray(<<>>)),
              BucketJson(PolicyJson(JsonNull, JsonNull),
                         ObjectOf("isClientAuthorizedToRead" :> JsonBool(TRUE)),
                         JsonNull)}

DecodeInputs ==
    {[type |-> "FileRetentionPolicy", json |-> v] : v \in PolicyValues}
        \cup {[type |-> "FileLockConfiguration", json |-> v] : v \in LockValues}
        \cup {[type |-> "BucketEncryptionInfo", json |-> v] :
                  v \in EncryptionInfoValues}
        \cup {[type |-> "Bucket", json |-> v] : v \in BucketValues}
        \cup {[type |-> "new", json |-> JsonNull]}

InitDecode ==
    /\ NoChain
    /\ input \in DecodeInputs

NextDecode ==
    \/ /\ input.type = "new"
       /\ \E mode \in DOMAIN FileRetentionMode_rename :
              \E duration \in {Duration_zero, Duration_days(7),
                                Duration_milliseconds(MillisPerDay + 1)} :
                  Construct_new(mode, duration)
    \/ /\ input.type = "new"
       /\ Construct_default
    \/ /\ input.type = "FileRetentionPolicy"
       /\ FileRetentionPolicy_from_value(input.json)
    \/ /\ input.type = "FileLockConfiguration"
       /\ FileLockConfiguration_from_value(input.json)
    \/ /\ input.type = "BucketEncryptionInfo"
       /\ BucketEncryptionInfo_from_value(input.json)
    \/ /\ input.type = "Bucket"
       /\ Bucket_from_value(input.json)
    \/ FileLockConfiguration_lock_is_enabled
    \/ FileLockConfiguration_retention_policy
    \/ BucketEncryptionInfo_settings
    \/ Bucket_retention_policy
    \/ Bucket_encryption_info

SpecDecode == InitDecode /\ [][NextDecode]_vars

(***************************************************************************)
(* The builder specification: the chains of the four builders that end in  *)
(* build().  Init draws the bucket info and the Cache-Control the caller   *)
(* passes to bucket_info and cache_control.                                *)
(***************************************************************************)
BucketInfos ==
    {JsonObject("owner" :> JsonString("me")),
     JsonObject("Cache-Control" :> JsonString("no-store")
                    @@ "owner" :> JsonString("me")),
     JsonObject("Cache-Control" :> JsonString("max-age=3600")),
     JsonString("text"),
     JsonNull}

CacheControls == {"max-age=3600", "no-cache"}

BuilderInputs ==
    {[info |-> i, cache_control |-> v] : i \in BucketInfos, v \in CacheControls}

\* The durations a caller passes to hide_after_upload and delete_after_hide.
DayCounts ==
    {Duration_milliseconds(-1), Duration_zero, Duration_seconds(86399),
     Duration_days(1), [days |-> 1, millis |-> 43200000],
     Duration_days(U16Max), [days |-> U16Max, millis |-> 1],
     Duration_days(U16Max + 1), Duration_days(2 * U16Max + 1)}

InitBuilders ==
    /\ NoChain
    /\ input \in BuilderInputs

NextBuilders ==
    \/ CreateBucket_builder
    \/ CreateBucketBuilder_name("my-bucket")
    \/ CreateBucketBuilder_bucket_type("Public")
    \/ CreateBucketBuilder_bucket_info(input.info)
    \/ CreateBucketBuilder_cache_control(input.cache_control)
    \/ CreateBucketBuilder_build
    \/ UpdateBucket_builder
    \/ \E id \in BucketIds : UpdateBucketBuilder_bucket_id(id)
    \/ UpdateBucketBuilder_bucket_info(input.info)
    \/ UpdateBucketBuilder_cache_control(input.cache_control)
    \/ UpdateBucketBuilder_build
    \/ CorsRule_builder
    \/ CorsRuleBuilder_name(CorsBase.name)
    \/ CorsRuleBuilder_allowed_origins(CorsBase.origins)
    \/ CorsRuleBuilder_allowed_operations(CorsBase.ops)
    \/ CorsRuleBuilder_max_age(CorsBase.age)
    \/ CorsRuleBuilder_build
    \/ LifecycleRule_builder
    \/ \E prefix \in {"", "Docs/"} : LifecycleRuleBuilder_filename_prefix(prefix)
    \/ \E days \in DayCounts : LifecycleRuleBuilder_hide_after_upload(days)
    \/ \E days \in DayCounts : LifecycleRuleBuilder_delete_after_hide(days)
    \/ LifecycleRuleBuilder_build

SpecBuilders == InitBuilders /\ [][NextBuilders]_vars

(***************************************************************************)
(* The API specification: requests are built and passed to the calls of    *)
(* the API.  Init draws the authorization.                                 *)
(***************************************************************************)
Authorizations ==
    {[account_id |-> "abcdefg", capabilities |-> c] : c \in SUBSET Capabilities}

InitApi ==
    /\ NoChain
    /\ input \in Authorizations

NextApi ==
    \/ CreateBucket_builder
    \/ CreateBucketBuilder_name("my-bucket")
    \/ CreateBucketBuilder_bucket_type("Public")
    \/ CreateBucketBuilder_with_file_lock
    \/ CreateBucketBuilder_without_file_lock
    \/ CreateBucketBuilder_encryption_settings(B2Managed("Aes256"))
    \/ CreateBucketBuilder_build
    \/ UpdateBucket_builder
    \/ \E id \in BucketIds : UpdateBucketBuilder_bucket_id(id)
    \/ UpdateBucketBuilder_retention_policy(
           FileRetentionPolicy_new("Governance", Duration_days(7)))
    \/ UpdateBucketBuilder_encryption_settings(NoEncryption)
    \/ UpdateBucketBuilder_build
    \/ ListBuckets_builder
    \/ \E id \in BucketIds : ListBucketsBuilder_bucket_id(id)
    \/ \E name \in BucketNames : ListBucketsBuilder_bucket_name(name)
    \/ ListBucketsBuilder_bucket_types(<<"Public", "Private">>)
    \/ ListBucketsBuilder_with_all_bucket_types
    \/ ListBucketsBuilder_build
    \/ create_bucket(input)
    \/ update_bucket(input)
    \/ \E id \in BucketIds : delete_bucket(input, id)
    \/ list_buckets(input)

SpecApi == InitApi /\ [][NextApi]_vars

(***************************************************************************)
(* Properties of the lifecycle rules, stated on the last call.             *)
(***************************************************************************)
LifecycleCall ==
    last.op \in {"CreateBucketBuilder::lifecycle_rules",
                 "UpdateBucketBuilder::lifecycle_rules"}

Range(v) == {v[i] : i \in DOMAIN v}

PrefixesOf(rules) == {rules[i].file_name_prefix : i \in DOMAIN rules}

\* a is a proper string-prefix of b
IsProperPrefix(a, b) ==
    /\ Len(a) < Len(b)
    /\ \A i \in 1..Len(a) : CharAt(a, i) = CharAt(b, i)

HasConflict(P) == \E a \in P, b \in P : IsProperPrefix(a, b)

\* a is before b in the lexicographic order of their bytes
LexLess(a, b) ==
    \E k \in 1..Len(b) :
        /\ k <= Len(a) + 1
        /\ \A i \in 1..(k - 1) : CharAt(a, i) = CharAt(b, i)
        /\ \/ k = Len(a) + 1
           \/ Ord(CharAt(a, k)) < Ord(CharAt(b, k))

StrictlyAscending(v) == \A i \in 1..(Len(v) - 1) : LexLess(v[i], v[i + 1])

\* The report as a map from a prefix to a set of prefixes.
ReportMap(report) ==
    {<<report[i].prefix, Range(report[i].conflicts)>> : i \in DOMAIN report}

ReportKeys(report) == [i \in DOMAIN report |-> report[i].prefix]

ExpectedMap(P) ==
    {<<a, {b \in P : IsProperPrefix(a, b)}>> :
        a \in {x \in P : \E b \in P : IsProperPrefix(x, b)}}

Count(v, x) == Cardinality({i \in DOMAIN v : v[i] = x})

SameBag(v, w) == Len(v) = Len(w) /\ \A x \in Range(v) : Count(v, x) = Count(w, x)

PermutationsOf(v) ==
    {[i \in 1..Len(v) |-> v[f[i]]] : f \in Permutations(1..Len(v))}

\* C1: the conflict report of lifecycle_rules maps a prefix A to exactly the
\* set of the prefixes B of the list of which A is a proper string-prefix,
\* for every such A and only those (nested descendants are listed under each
\* of their ancestors, a prefix without descendant is no key); the two lists
\* of the documentation give the two documented reports.
C1_ReportIsProperPrefixMap ==
    LifecycleCall =>
        /\ ReportMap(last.report) = ExpectedMap(PrefixesOf(last.arg))
        /\ Cardinality(Range(ReportKeys(last.report))) = Len(last.report)
        /\ last.arg = RulesOf(DocExample1) =>
               ReportMap(last.report) =
                   {<<"Legal/", {"Legal/Taxes/"}>>,
                    <<"Archive/", {"Archive/Temporary/"}>>}
        /\ last.arg = RulesOf(DocExample2) =>
               ReportMap(last.report) =
                   {<<"Docs/", {"Docs/Documents/", "Docs/Photos/",
                                "Docs/Photos/Vacations/"}>>,
                    <<"Docs/Photos/", {"Docs/Photos/Vacations/"}>>}

C1_Witness ==
    /\ LifecycleCall
    /\ last.arg = RulesOf(DocExample2)
    /\ ~last.ok
    /\ Len(last.report) = 2

\* C2: lifecycle_rules of the create and of the update builder returns Ok,
\* and stores the rules in the builder, if and only if no prefix of the list
\* is a proper string-prefix of another; otherwise it returns
\* ConflictingRules with a report and the builder is gone, so that no built
\* request carries rules with a prefix/sub-path pair.
C2_AcceptsIffNoConflict ==
    /\ LifecycleCall =>
        /\ last.ok <=> ~HasConflict(PrefixesOf(last.arg))
        /\ last.ok =>
            LET b == IF last.op = "CreateBucketBuilder::lifecycle_rules"
                     THEN cbb ELSE ubb
            IN  /\ is_some(b)
                /\ is_some(unwrap(b).lifecycle_rules)
                /\ SameBag(unwrap(unwrap(b).lifecycle_rules), last.arg)
        /\ ~last.ok =>
            /\ last.err = "ConflictingRules"
            /\ last.report # <<>>
            /\ cbb = None /\ ubb = None /\ req = None
    /\ \A b \in {cbb, ubb, req} :
        (is_some(b) /\ is_some(unwrap(b).lifecycle_rules)) =>
            ~HasConflict(PrefixesOf(unwrap(unwrap(b).lifecycle_rules)))

C2_Witness ==
    /\ is_some(req)
    /\ is_some(unwrap(req).lifecycle_rules)
    /\ Len(unwrap(unwrap(req).lifecycle_rules)) >= 2
    /\ unwrap(unwrap(req).lifecycle_rules) # input

OriginsCall == last.op = "CorsRuleBuilder::allowed_origins"

AddOriginCall == last.op = "CorsRuleBuilder::add_allowed_origin"

\* The list the last call asked to validate.
Attempted ==
    IF OriginsCall THEN last.arg ELSE Append(last.arg.self, last.arg.origin)

\* The call returned Ok and the builder holds the list v.
AcceptedAs(v) == last.ok /\ is_some(crb) /\ unwrap(crb).allowed_origins = v

\* The call returned Err and the builder is gone.
Rejected == ~last.ok /\ crb = None

ends_with(s, p) ==
    Len(p) <= Len(s) /\ SubSeq(s, Len(s) - Len(p) + 1, Len(s)) = p

IsSchemeOnlyShape(o) == find(o, "://") = 0 /\ count_stars(o) = 0

IsFullOfScheme(o, scheme) == starts_with(o, scheme \o "://")

IsHttpsEntry(o) == o = "https" \/ IsFullOfScheme(o, "https")

\* The one `*` of o lies in its scheme or in its port.
StarInSchemeOrPort(o) ==
    LET sep == find(o, "://")
        star == find(o, "*")
        rest == SubSeq(o, sep + 3, Len(o))
    IN  /\ count_stars(o) = 1
        /\ sep > 0
        /\ \/ star < sep
           \/ find(rest, ":") > 0 /\ find(rest, "*") > find(rest, ":")

\* Some host matches both host patterns (each with at most one `*`).
HostsOverlap(p, q) ==
    LET Pre(x) == SubSeq(x, 1, find(x, "*") - 1)
        Suf(x) == SubSeq(x, find(x, "*") + 1, Len(x))
        Matches(h, x) ==
            /\ Len(h) >= Len(Pre(x)) + Len(Suf(x))
            /\ starts_with(h, Pre(x))
            /\ ends_with(h, Suf(x))
    IN  IF find(p, "*") = 0 /\ find(q, "*") = 0 THEN p = q
        ELSE IF find(q, "*") = 0 THEN Matches(q, p)
        ELSE IF find(p, "*") = 0 THEN Matches(p, q)
        ELSE /\ starts_with(Pre(p), Pre(q)) \/ starts_with(Pre(q), Pre(p))
             /\ ends_with(Suf(p), Suf(q)) \/ ends_with(Suf(q), Suf(p))

\* v is made of two or more valid full entries of one scheme, whose host
\* patterns differ and do not overlap.
DisjointFullEntries(v, scheme) ==
    /\ Len(v) >= 2
    /\ \A i \in DOMAIN v :
           classify(v[i]).class = "Full" /\ classify(v[i]).scheme = scheme
    /\ \A i, j \in DOMAIN v :
           i # j => ~HostsOverlap(classify(v[i]).host, classify(v[j]).host)

\* C5: allowed_origins rejects every list that holds `*` and another entry,
\* and accepts the list of `*` alone.
C5_UniversalMustBeAlone ==
    OriginsCall =>
        /\ ("*" \in Range(last.arg) /\ Len(last.arg) >= 2) => Rejected
        /\ last.arg = <<"*">> => AcceptedAs(<<"*">>)

C5_Witness ==
    /\ OriginsCall
    /\ last.arg = <<"http://example.com:1234", "*">>
    /\ Rejected

\* C6: allowed_origins rejects every list with two scheme-only entries of
\* the same scheme, and accepts one scheme-only entry of each scheme.
C6_OneSchemeOnlyPerScheme ==
    OriginsCall =>
        /\ (\E i, j \in DOMAIN last.arg :
                i # j /\ last.arg[i] = last.arg[j]
                      /\ IsSchemeOnlyShape(last.arg[i])) => Rejected
        /\ last.arg \in {<<"https", "http">>, <<"http", "https">>} =>
               AcceptedAs(last.arg)

C6_Witness ==
    /\ OriginsCall
    /\ last.arg = <<"http", "http">>
    /\ Rejected

\* C7 as claimed: allowed_origins rejects every list in which a scheme-only
\* entry appears together with a full entry of the same scheme.
C7_Original_SchemeOnlyExcludesFull ==
    OriginsCall =>
        ((\E i, j \in DOMAIN last.arg :
              /\ last.arg[i] \in AllowedSchemes
              /\ IsFullOfScheme(last.arg[j], last.arg[i])) => ~last.ok)

\* C7 as amended: allowed_origins rejects every list in which the
\* scheme-only entry https appears together with a full https entry,
\* whatever its host pattern; the scheme-only entry http together with the
\* full entry http://example.com:1234 is accepted, as in the list
\* [https, http, http://example.com:1234] of the test.
C7_HttpsSchemeOnlyExcludesFull ==
    OriginsCall =>
        /\ ("https" \in Range(last.arg)
                /\ \E j \in DOMAIN last.arg :
                       IsFullOfScheme(last.arg[j], "https")) => Rejected
        /\ last.arg \in {<<"http", "http://example.com:1234">>,
                         <<"https", "http", "http://example.com:1234">>} =>
               AcceptedAs(last.arg)

C7_Witness ==
    /\ OriginsCall
    /\ last.arg = <<"https", "http", "http://example.com:1234">>
    /\ AcceptedAs(last.arg)

\* C8: an accepted origin list has no more than one https entry:
\* allowed_origins rejects every list with two entries of the https scheme,
\* such as [https://*:8765, https://www.example.com:4545], and accepts
\* [https://*:8765, http://www.example.com:4545].
C8_AtMostOneHttpsEntry ==
    /\ OriginsCall =>
        /\ Cardinality({i \in DOMAIN last.arg : IsHttpsEntry(last.arg[i])}) >= 2
               => Rejected
        /\ last.arg = <<"https://*:8765", "http://www.example.com:4545">> =>
               AcceptedAs(last.arg)
    /\ is_some(crb) =>
        Cardinality({i \in DOMAIN unwrap(crb).allowed_origins :
                        IsHttpsEntry(unwrap(crb).allowed_origins[i])}) <= 1

C8_Witness ==
    /\ OriginsCall
    /\ last.arg = <<"https://*:8765", "https://www.example.com:4545">>
    /\ Rejected

\* C9 as claimed: allowed_origins accepts a list made of two or more valid
\* full entries of the same scheme whose host patterns differ and do not
\* overlap, for either allowed scheme.
C9_Original_DisjointFullEntriesAccepted ==
    OriginsCall =>
        \A scheme \in AllowedSchemes :
            DisjointFullEntries(last.arg, scheme) => last.ok

\* C9 as amended: allowed_origins accepts a list made of two or more valid
\* full entries of the http scheme whose host patterns differ and do not
\* overlap; such a list of the https scheme is rejected, since a list has
\* no more than one https entry.
C9_DisjointHttpEntriesAccepted ==
    OriginsCall =>
        /\ DisjointFullEntries(last.arg, "http") => AcceptedAs(last.arg)
        /\ DisjointFullEntries(last.arg, "https") => Rejected

C9_Witness ==
    /\ OriginsCall
    /\ last.arg = <<"http://www.example.com:4545", "http://example.com:1234">>
    /\ DisjointFullEntries(last.arg, "http")
    /\ AcceptedAs(last.arg)

\* C10: allowed_origins and add_allowed_origin reject every entry with more
\* than one `*` and every entry whose one `*` lies in the scheme or in the
\* port; an entry with one `*` in its host (https://*.example.com,
\* https://*, https://*:8765) is accepted as an entry.
C10_WildcardOnlyInHost ==
    (OriginsCall \/ AddOriginCall) =>
        /\ (\E i \in DOMAIN Attempted : count_stars(Attempted[i]) > 1)
               => Rejected
        /\ (\E i \in DOMAIN Attempted : StarInSchemeOrPort(Attempted[i]))
               => Rejected
        /\ Attempted \in {<<"https://*.example.com">>, <<"https://*">>,
                          <<"https://*:8765">>} => AcceptedAs(Attempted)

C10_Witness ==
    /\ AddOriginCall
    /\ last.arg.self = <<"http://example.com:1234">>
    /\ last.arg.origin = "https://example.com:*"
    /\ Rejected

\* The text after the first `:` that follows `://` is a non-empty run of
\* digits, or there is no such `:`.
WellFormedPort(o) ==
    LET rest == SubSeq(o, find(o, "://") + 3, Len(o))
        colon == find(rest, ":")
    IN  colon > 0 =>
            /\ colon < Len(rest)
            /\ \A i \in (colon + 1)..Len(rest) : is_digit(CharAt(rest, i))

\* o is `*`, a bare allowed scheme, or scheme://host[:port] with an allowed
\* scheme and a well-formed port.
HasEntryShape(o) ==
    \/ o = "*"
    \/ o \in {"http", "https"}
    \/ /\ IsFullOfScheme(o, "http") \/ IsFullOfScheme(o, "https")
       /\ WellFormedPort(o)

\* C11: allowed_origins and add_allowed_origin reject every list that holds
\* an entry which is not `*`, a bare allowed scheme or scheme://host[:port]
\* with scheme http or https and a well-formed port, even when the other
\* entries are valid; every entry of the builder's list has that shape.
C11_EntryShape ==
    /\ (OriginsCall \/ AddOriginCall) =>
           ((\E i \in DOMAIN Attempted : ~HasEntryShape(Attempted[i]))
                => Rejected)
    /\ is_some(crb) =>
           \A i \in DOMAIN unwrap(crb).allowed_origins :
               HasEntryShape(unwrap(crb).allowed_origins[i])

C11_Witness ==
    /\ OriginsCall
    /\ last.arg = <<"https://*:8765", "www.example.com:4545">>
    /\ HasEntryShape(last.arg[1])
    /\ ~HasEntryShape(last.arg[2])
    /\ Rejected

(***************************************************************************)
(* Properties of the CORS rule, stated on the last call and on the rule    *)
(* build() made.                                                           *)
(***************************************************************************)
BuildCall == last.op = "CorsRuleBuilder::build"

\* The builder has a name, an age, an origin and an operation.
MandatorySet(self) ==
    /\ is_some(self.name)
    /\ is_some(self.max_age)
    /\ self.allowed_origins # <<>>
    /\ self.allowed_operations # <<>>

\* The sum of the byte lengths of the strings of a list.
BytesOfAll(v) ==
    LET S[i \in 0..Len(v)] == IF i = 0 THEN 0 ELSE S[i - 1] + Len(v[i])
    IN  S[Len(v)]

ListOf(o) == IF is_some(o) THEN unwrap(o) ELSE <<>>

\* The bytes of the name, of every origin, of every operation tag and of
\* every allowed and exposed header string.
StringBytes(self) ==
    Len(unwrap(self.name))
        + BytesOfAll(self.allowed_origins)
        + BytesOfAll([i \in 1..Len(self.allowed_operations) |->
                          CorsOperation_rename[self.allowed_operations[i]]])
        + BytesOfAll(ListOf(self.allowed_headers))
        + BytesOfAll(ListOf(self.expose_headers))

\* C12: with all mandatory fields set, build succeeds if and only if the
\* bytes of the name, the origins, the operation tags and the allowed and
\* exposed header strings sum to less than 1000, and fails with OutOfBounds
\* otherwise: 999 bytes are accepted, 1000 rejected.
C12_BuildEnforcesByteBudget ==
    (BuildCall /\ MandatorySet(last.arg)) =>
        /\ last.ok <=> StringBytes(last.arg) < 1000
        /\ ~last.ok => last.err = "OutOfBounds"

\* C13: the allowed headers of the builder never hold `*` together with
\* another entry.
C13_StarHeaderMustBeAlone ==
    (is_some(crb) /\ is_some(unwrap(crb).allowed_headers)) =>
        LET h == unwrap(unwrap(crb).allowed_headers)
        IN  ~("*" \in Range(h) /\ Len(h) >= 2)

\* C14: max_age accepts exactly the durations from 0 to one day and rejects
\* the others with OutOfBounds; the max_age_seconds of the built rule is
\* the number of whole seconds of the duration max_age accepted.
C14_MaxAgeKeepsSeconds ==
    /\ last.op = "CorsRuleBuilder::max_age" =>
           /\ last.ok <=> \/ last.arg.days = 0
                           \/ last.arg = [days |-> 1, millis |-> 0]
           /\ ~last.ok => last.err = "OutOfBounds"
    /\ (BuildCall /\ last.ok) =>
           unwrap(req).max_age_seconds
               = input.age.days * 86400 + input.age.millis \div 1000

\* C15: every CorsRule build() returns has an origin and an operation;
\* build returns MissingData when the builder has no origin or no
\* operation; allowed_operations rejects the empty list.
C15_BuiltRuleHasOriginAndOperation ==
    /\ (BuildCall /\ last.ok) =>
           /\ is_some(req)
           /\ unwrap(req).allowed_origins # <<>>
           /\ unwrap(req).allowed_operations # <<>>
    /\ (BuildCall /\ (\/ last.arg.allowed_origins = <<>>
                      \/ last.arg.allowed_operations = <<>>)) =>
           ~last.ok /\ last.err = "MissingData" /\ req = None
    /\ (last.op = "CorsRuleBuilder::allowed_operations" /\ last.arg = <<>>) =>
           ~last.ok /\ last.err = "MissingData" /\ crb = None

C15_Witness ==
    /\ BuildCall
    /\ is_some(last.arg.name)
    /\ is_some(last.arg.max_age)
    /\ last.arg.allowed_origins # <<>>
    /\ last.arg.allowed_operations = <<>>
    /\ last.err = "MissingData"
    /\ req = None

(***************************************************************************)
(* Properties of the JSON form of ServerSideEncryption, stated on the last *)
(* call.                                                                   *)
(***************************************************************************)
ToValueCall == last.op = "to_value"
FromValueCall == last.op = "from_value"

Companions == {"algorithm", "customerKey", "customerKeyMd5"}

\* The companion fields of each variant.
CompanionsOf(variant) ==
    IF variant = "B2Managed" THEN {"algorithm"}
    ELSE IF variant = "SelfManaged" THEN Companions
    ELSE {}

\* The key is not in the object, or it is null.
Missing(object, key) ==
    key \notin DOMAIN object.map \/ is_null(object.map[key])

\* The object has the given string as its mode.
HasMode(object, mode) ==
    /\ "mode" \in DOMAIN object.map
    /\ is_string(object.map["mode"])
    /\ as_str(object.map["mode"]) = mode

\* C16: decoding the JSON that encoding wrote for a ServerSideEncryption x
\* succeeds and gives a value equal to x.
C16_EncryptionRoundTrip ==
    (FromValueCall /\ input.kind = "ServerSideEncryption") =>
        /\ last.ok
        /\ last.arg = to_value(input.value)
        /\ sse = Some(input.value)

C16_Witness ==
    /\ FromValueCall
    /\ input.kind = "ServerSideEncryption"
    /\ input.value.variant = "SelfManaged"
    /\ last.arg = unwrap(wire)
    /\ sse = Some(input.value)

\* C17: decoding an object of mode "SSE-B2" without algorithm, or of mode
\* "SSE-C" without algorithm, customerKey or customerKeyMd5, is an error and
\* gives no ServerSideEncryption.
C17_MissingCompanionFailsClosed ==
    (FromValueCall /\ is_object(last.arg)) =>
        /\ (HasMode(last.arg, "SSE-B2") /\ Missing(last.arg, "algorithm"))
               => (~last.ok /\ sse = None)
        /\ (HasMode(last.arg, "SSE-C")
                /\ \E k \in Companions : Missing(last.arg, k))
               => (~last.ok /\ sse = None)

C17_Witness ==
    /\ FromValueCall
    /\ is_object(last.arg)
    /\ HasMode(last.arg, "SSE-C")
    /\ ~Missing(last.arg, "algorithm")
    /\ Missing(last.arg, "customerKey")
    /\ ~Missing(last.arg, "customerKeyMd5")
    /\ last.err = "Missing encryption key"
    /\ sse = None

\* C18: decoding an object succeeds only when its non-null companion fields
\* are exactly those of the variant its mode selects.
C18_CompanionsMatchVariant ==
    (FromValueCall /\ is_object(last.arg) /\ last.ok) =>
        {k \in Companions : ~Missing(last.arg, k)}
            = CompanionsOf(unwrap(sse).variant)

\* The JSON object of a ServerSideEncryption: its mode and exactly the
\* companion fields of its variant.
ExpectedWire(x) ==
    IF x.variant = "NoEncryption"
    THEN JsonObject("mode" :> JsonNull)
    ELSE IF x.variant = "B2Managed"
    THEN JsonObject("mode" :> JsonString("SSE-B2")
                        @@ "algorithm" :> JsonString("AES256"))
    ELSE JsonObject("mode" :> JsonString("SSE-C")
                        @@ "algorithm" :> JsonString("AES256")
                        @@ "customerKey" :> JsonString(x.value[1].key)
                        @@ "customerKeyMd5" :> JsonString(x.value[1].digest))

\* C19: encoding writes the mode and exactly the companion fields of the
\* variant, with the stored key and digest, and no other key.
C19_EncodingWritesExactlyTheVariant ==
    ToValueCall => wire = Some(ExpectedWire(last.arg))

C19_Witness ==
    /\ ToValueCall
    /\ last.arg = NoEncryption
    /\ wire = Some(JsonObject("mode" :> JsonNull))

\* C20, as first stated: encoding writes every companion field that does not
\* belong to the variant as an explicit null.
C20_Original_OtherCompanionsWrittenAsNull ==
    ToValueCall =>
        \A k \in Companions \ CompanionsOf(last.arg.variant) :
            /\ k \in DOMAIN unwrap(wire).map
            /\ is_null(unwrap(wire).map[k])

\* C20, amended: encoding leaves every companion field that does not belong
\* to the variant out of the object; only the mode is always written, as
\* null for NoEncryption.
C20_OtherCompanionsOmitted ==
    ToValueCall =>
        /\ \A k \in Companions \ CompanionsOf(last.arg.variant) :
               k \notin DOMAIN unwrap(wire).map
        /\ "mode" \in DOMAIN unwrap(wire).map
        /\ last.arg.variant = "NoEncryption"
               => is_null(unwrap(wire).map["mode"])

C20_Witness ==
    /\ ToValueCall
    /\ last.arg.variant = "B2Managed"
    /\ DOMAIN unwrap(wire).map = {"mode", "algorithm"}

\* The rules of the list: `*` is alone, no scheme-only entry is there twice,
\* no entry has more than one `*`.
ListRulesHold(v) ==
    /\ "*" \in Range(v) => Len(v) = 1
    /\ \A i, j \in DOMAIN v :
           (i # j /\ v[i] = v[j]) => v[i] \notin {"http", "https"}
    /\ \A i \in DOMAIN v : count_stars(v[i]) <= 1

\* C29: on a builder holding the accepted list L, add_allowed_origin(o)
\* succeeds exactly when the validation of L followed by o succeeds, and the
\* builder then holds L followed by o; the list of the builder satisfies
\* the rules of the list after any successful calls.
C29_AddingEqualsValidatingTheList ==
    /\ AddOriginCall =>
           /\ last.ok <=> validated_origins(Attempted).ok
           /\ last.ok => AcceptedAs(Attempted)
           /\ ~last.ok => Rejected
    /\ is_some(crb) => ListRulesHold(unwrap(crb).allowed_origins)

C29_Witness ==
    /\ AddOriginCall
    /\ last.arg.self = <<"https://*">>
    /\ last.arg.origin = "http://*"
    /\ AcceptedAs(<<"https://*", "http://*">>)

(***************************************************************************)
(* Properties of the decoded responses, stated on the last call, the value *)
(* it returned and the JSON the value was decoded from.                    *)
(***************************************************************************)
IsPolicy(d) == is_some(d) /\ unwrap(d).type = "FileRetentionPolicy"

\* C21: every FileRetentionPolicy that exists, constructed or decoded, has
\* its mode and its period both present or both absent.
C21_ModeAndPeriodTogether ==
    IsPolicy(decoded) =>
        (is_some(unwrap(decoded).mode) = is_some(unwrap(decoded).period))

Returned(op) == last.op = op /\ last.ok

\* What the JSON of a retention policy says: the mode and the period it
\* names, null or missing being none.
SaysMode(json, policy) ==
    IF is_null(get(json, "mode")) THEN policy.mode = None
    ELSE /\ is_some(policy.mode)
         /\ FileRetentionMode_rename[unwrap(policy.mode)]
                = as_str(get(json, "mode"))

SaysPeriod(json, policy) ==
    IF is_null(get(json, "period")) THEN policy.period = None
    ELSE /\ is_some(policy.period)
         /\ unwrap(policy.period).duration
                = as_number(get(json, "period").map["duration"])
         /\ PeriodUnit_rename[unwrap(policy.period).unit]
                = as_str(get(json, "period").map["unit"])

Authorized(json) == as_bool(json.map["isClientAuthorizedToRead"])

\* C22: the accessors of a FileLockConfiguration return None when the
\* response says the client may not read it, and Some of the enclosed flag
\* or policy when it may.
C22_UnreadableLockIsUnknown ==
    /\ Returned("FileLockConfiguration::lock_is_enabled") =>
           last.value = IF Authorized(input.json)
                        THEN Some(as_bool(input.json.map["isFileLockEnabled"]))
                        ELSE None
    /\ Returned("FileLockConfiguration::retention_policy") =>
           IF Authorized(input.json)
           THEN /\ is_some(last.value)
                /\ SaysMode(input.json.map["value"], unwrap(last.value))
                /\ SaysPeriod(input.json.map["value"], unwrap(last.value))
           ELSE last.value = None

C22_Witness ==
    /\ Returned("FileLockConfiguration::lock_is_enabled")
    /\ ~Authorized(input.json)
    /\ as_bool(input.json.map["isFileLockEnabled"])
    /\ last.value = None

\* C23: settings() of a decoded BucketEncryptionInfo is None when can_read()
\* is false.
C23_UnreadableSettingsAreNone ==
    (Returned("BucketEncryptionInfo::settings") /\ ~can_read(last.arg)) =>
        last.value = None

\* The default retention of a bucket response whose file lock configuration
\* is readable.
HasReadableRetention(response) ==
    /\ has_key(response, "fileLockConfiguration")
    /\ is_object(response.map["fileLockConfiguration"])
    /\ has_key(response.map["fileLockConfiguration"], "isClientAuthorizedToRead")
    /\ Authorized(response.map["fileLockConfiguration"])
    /\ has_key(response.map["fileLockConfiguration"], "value")
    /\ has_key(response.map["fileLockConfiguration"].map["value"],
               "defaultRetention")

DefaultRetentionOf(response) ==
    response.map["fileLockConfiguration"].map["value"].map["defaultRetention"]

\* C27: Bucket::retention_policy returns the mode and the period of the
\* default retention of the response.
C27_ResponseRetentionPreserved ==
    (Returned("Bucket::retention_policy") /\ HasReadableRetention(input.json)) =>
        /\ SaysMode(DefaultRetentionOf(input.json), last.value)
        /\ SaysPeriod(DefaultRetentionOf(input.json), last.value)

(***************************************************************************)
(* Properties of the builders' build(), stated on the builder before the   *)
(* call and the request and the result after it.                           *)
(***************************************************************************)
DaysCall ==
    last.op \in {"LifecycleRuleBuilder::hide_after_upload",
                 "LifecycleRuleBuilder::delete_after_hide"}

\* The days the builder holds for the setter called last.
DaysSet ==
    IF last.op = "LifecycleRuleBuilder::hide_after_upload"
    THEN unwrap(lrb).hide_after ELSE unwrap(lrb).delete_after

ValidDays(o) == is_some(o) => (unwrap(o) >= 1 /\ unwrap(o) <= 65535)

\* C25: hide_after_upload and delete_after_hide accept exactly the durations
\* of 1 to 65535 whole days, store the whole days, and reject the others
\* with OutOfBounds; a built rule has one of the two at least, each from 1
\* to 65535, and build returns Incompatible when neither was set.
C25_BuiltRuleHasValidDays ==
    /\ DaysCall =>
           IF last.arg.days >= 1 /\ last.arg.days <= 65535
           THEN last.ok /\ is_some(lrb) /\ DaysSet = Some(last.arg.days)
           ELSE ~last.ok /\ last.err = "OutOfBounds" /\ lrb = None
    /\ last.op = "LifecycleRuleBuilder::build" =>
           /\ last.ok =>
                  /\ is_some(req)
                  /\ unwrap(req).hide_after = last.arg.hide_after
                  /\ unwrap(req).delete_after = last.arg.delete_after
                  /\ is_some(unwrap(req).hide_after)
                         \/ is_some(unwrap(req).delete_after)
                  /\ ValidDays(unwrap(req).hide_after)
                  /\ ValidDays(unwrap(req).delete_after)
           /\ (is_some(last.arg.prefix) /\ last.arg.hide_after = None
                   /\ last.arg.delete_after = None) =>
                  ~last.ok /\ last.err = "Incompatible" /\ req = None

C25_Witness ==
    /\ last.op = "LifecycleRuleBuilder::build"
    /\ last.ok
    /\ unwrap(req).hide_after = Some(65535)
    /\ unwrap(req).delete_after = Some(1)

\* sub occurs in the string s.
Mentions(s, sub) ==
    \E i \in 1..(Len(s) - Len(sub) + 1) : SubSeq(s, i, i + Len(sub) - 1) = sub

\* The result is MissingData with a message that names the field, and there
\* is no request.
MissingNamed(result, request, field) ==
    /\ ~result.ok
    /\ result.err = "MissingData"
    /\ Len(result.report) = 1
    /\ Mentions(result.report[1], field)
    /\ request = None

\* C26: build() of a builder whose mandatory field was never set returns
\* MissingData with a message naming the first such field and makes no
\* request; with the mandatory fields set it does not return that error.
C26_MissingFieldIsNamed ==
    [][/\ (is_some(crb) /\ last'.op = "CorsRuleBuilder::build") =>
              IF unwrap(crb).name = None
              THEN MissingNamed(last', req', "name")
              ELSE IF unwrap(crb).max_age = None
              THEN MissingNamed(last', req', "maximum age")
              ELSE /\ ~MissingNamed(last', None, "name")
                   /\ ~MissingNamed(last', None, "maximum age")
       /\ (is_some(lrb) /\ last'.op = "LifecycleRuleBuilder::build") =>
              IF unwrap(lrb).prefix = None
              THEN MissingNamed(last', req', "filename prefix")
              ELSE last'.err # "MissingData"
       /\ (is_some(cbb) /\ last'.op = "CreateBucketBuilder::build") =>
              IF unwrap(cbb).bucket_name = None
              THEN MissingNamed(last', req', "name")
              ELSE IF unwrap(cbb).bucket_type = None
              THEN MissingNamed(last', req', "type")
              ELSE last'.ok /\ is_some(req')
       /\ (is_some(ubb) /\ last'.op = "UpdateBucketBuilder::build") =>
              IF unwrap(ubb).bucket_id = None
              THEN MissingNamed(last', req', "bucket ID")
              ELSE last'.ok /\ is_some(req')
      ]_vars

C26_Witness ==
    /\ last.op = "CorsRuleBuilder::build"
    /\ is_some(last.arg.name)
    /\ last.arg.max_age = None
    /\ last.report = <<"A maximum age for client caching must be specified">>
    /\ req = None

\* The bucket_info of a request holds the Cache-Control v and every other
\* entry of the info given to bucket_info, if one was given.
CacheControlWins(built, given, v) ==
    /\ is_some(built)
    /\ is_object(unwrap(built))
    /\ "Cache-Control" \in DOMAIN unwrap(built).map
    /\ unwrap(built).map["Cache-Control"] = JsonString(v)
    /\ (is_some(given) /\ is_object(unwrap(given))) =>
           \A k \in DOMAIN unwrap(given).map \ {"Cache-Control"} :
               /\ k \in DOMAIN unwrap(built).map
               /\ unwrap(built).map[k] = unwrap(given).map[k]

\* C28: the builders keep what bucket_info and cache_control were given,
\* and when cache_control(v) was called the bucket_info of the built request
\* is an object with Cache-Control v and the other entries of bucket_info.
C28_CacheControlAlwaysWins ==
    [][/\ (last'.op \in {"CreateBucketBuilder::cache_control",
                         "UpdateBucketBuilder::cache_control"}) =>
              /\ last'.ok
              /\ last'.op = "CreateBucketBuilder::cache_control" =>
                     unwrap(cbb').cache_control = Some(last'.arg)
              /\ last'.op = "UpdateBucketBuilder::cache_control" =>
                     unwrap(ubb').cache_control = Some(last'.arg)
       /\ (is_some(cbb) /\ last'.op = "CreateBucketBuilder::build"
               /\ last'.ok /\ is_some(unwrap(cbb).cache_control)) =>
              CacheControlWins(unwrap(req').bucket_info,
                               unwrap(cbb).bucket_info,
                               unwrap(unwrap(cbb).cache_control))
       /\ (is_some(ubb) /\ last'.op = "UpdateBucketBuilder::build"
               /\ last'.ok /\ is_some(unwrap(ubb).cache_control)) =>
              CacheControlWins(unwrap(req').bucket_info,
                               unwrap(ubb).bucket_info,
                               unwrap(unwrap(ubb).cache_control))
      ]_vars

(***************************************************************************)
(* Properties of the calls of the API, stated on the last call, the        *)
(* authorization and what the call sent.                                   *)
(***************************************************************************)
ApiOps == {"create_bucket", "update_bucket", "delete_bucket", "list_buckets"}

\* The capabilities a call needs for its argument.
RequiredFor(op, arg) ==
    IF op = "create_bucket"
    THEN {"WriteBuckets"}
             \cup (IF arg.file_lock_enabled
                   THEN {"WriteBucketRetentions"} ELSE {})
             \cup (IF is_some(arg.default_server_side_encryption)
                   THEN {"WriteBucketEncryption"} ELSE {})
    ELSE IF op = "update_bucket"
    THEN {"WriteBuckets"}
             \cup (IF is_some(arg.default_retention)
                   THEN {"WriteBucketRetentions"} ELSE {})
             \cup (IF is_some(arg.default_server_side_encryption)
                   THEN {"WriteBucketEncryption"} ELSE {})
    ELSE IF op = "delete_bucket" THEN {"DeleteBuckets"}
    ELSE {"ListBuckets"}

\* C24: a call of the API whose authorization lacks a capability the call
\* needs returns an error and sends no post; with the capabilities it needs
\* the call sends its post.
C24_CapabilitiesPrecedeTheNetwork ==
    last.op \in ApiOps =>
        IF RequiredFor(last.op, last.arg) \subseteq input.capabilities
        THEN Len(posts) = 1 /\ posts[1].url = "b2_" \o last.op
        ELSE ~last.ok /\ last.err = "Unauthorized" /\ posts = <<>>

C24_Witness ==
    /\ last.op = "update_bucket"
    /\ is_some(last.arg.default_retention)
    /\ input.capabilities = {"WriteBuckets", "WriteBucketEncryption"}
    /\ ~last.ok
    /\ posts = <<>>

\* The keys bucketId and bucketName of a JSON object say what the bucket
\* reference is: its id, its name or nothing.
SaysBucket(body, bucket) ==
    /\ "bucketId" \in DOMAIN body <=>
           (is_some(bucket) /\ unwrap(bucket).variant = "Id")
    /\ "bucketName" \in DOMAIN body <=>
           (is_some(bucket) /\ unwrap(bucket).variant = "Name")
    /\ "bucketId" \in DOMAIN body =>
           body["bucketId"] = JsonString(unwrap(bucket).value)
    /\ "bucketName" \in DOMAIN body =>
           body["bucketName"] = JsonString(unwrap(bucket).value)

\* C30: the builder holds the bucket reference of the last bucket_id or
\* bucket_name call, build() keeps it, and the JSON list_buckets sends has
\* the account id of the authorization and bucketId or bucketName for that
\* reference, never both, and neither when there is none.
C30_OneBucketReferenceOnTheWire ==
    [][/\ last'.op = "ListBuckets::builder" => unwrap(lbb').bucket = None
       /\ last'.op = "ListBucketsBuilder::bucket_id" =>
              unwrap(lbb').bucket = Some(BucketRef_Id(last'.arg))
       /\ last'.op = "ListBucketsBuilder::bucket_name" =>
              IF last'.ok
              THEN unwrap(lbb').bucket = Some(BucketRef_Name(last'.arg))
              ELSE lbb' = None
       /\ (is_some(lbb)
               /\ last'.op \in {"ListBucketsBuilder::bucket_types",
                                "ListBucketsBuilder::with_all_bucket_types"}) =>
              unwrap(lbb').bucket = unwrap(lbb).bucket
       /\ (is_some(lbb) /\ last'.op = "ListBucketsBuilder::build") =>
              /\ is_some(req')
              /\ unwrap(req').bucket = unwrap(lbb).bucket
       /\ (is_some(req) /\ last'.op = "list_buckets" /\ posts' # <<>>) =>
              /\ posts'[1].body.map["accountId"] = JsonString(input.account_id)
              /\ ~({"bucketId", "bucketName"} \subseteq DOMAIN posts'[1].body.map)
              /\ SaysBucket(posts'[1].body.map, unwrap(req).bucket)
      ]_vars

C30_Witness ==
    /\ last.op = "list_buckets"
    /\ last.arg.bucket = Some(BucketRef_Name("my-bucket"))
    /\ Len(posts) = 1
    /\ "bucketName" \in DOMAIN posts[1].body.map
    /\ "bucketId" \notin DOMAIN posts[1].body.map

====
